---- MODULE Spec2Model ----
(***************************************************************************)
(* A model of the risk engine and the execution engine of hydra-x          *)
(* (src/modules/risk.py, src/modules/execution.py).                        *)
(*                                                                         *)
(* Money amounts are integers (account currency units).  The UTC date is   *)
(* a day index.  A Python (bool, reason) result is kept as "allowed" for   *)
(* True and "blocked" for False; "none" means no call has returned since   *)
(* the state the result was computed from changed.  The shares of a        *)
(* partial close are binary64 floats, computed bit for bit; a position     *)
(* size is a decimal of 8 places.                                          *)
(***************************************************************************)
EXTENDS Integers, Sequences, FiniteSets, TLC

VARIABLES
    \* ---- RiskManager (src/modules/risk.py) ----
    today,                      \* datetime.utcnow() date, as a day index
    daily_pnl_file,             \* data/daily_pnl.json: kind "json" (its object), "missing" or "corrupt"
    daily_loss_accumulation,    \* RiskManager.daily_loss_accumulation
    consecutive_loss_counter,   \* RiskManager.consecutive_loss_counter
    check_result,               \* what the last check_daily_loss_limit returned
    inc_result,                 \* what the last increment_consecutive_losses returned
    tracked,                    \* history: the pnl arguments track_daily_pnl got on this instance
    loaded_pnl,                 \* history: what _load_daily_pnl put in daily_loss_accumulation
    started,                    \* history: the date this RiskManager was constructed on
    pnl_today,                  \* history: the PnL realised on the current UTC date
    tripped,                    \* history: the date check_daily_loss_limit last blocked on (-1: never)
    losses_since_reset,         \* history: increment calls on this instance since the last reset
    restarts,                   \* history: RiskManager constructions after the first
    trades_total,               \* history: track_daily_pnl calls so far
    \* ---- OrderExecutor.submit_order_with_retry (src/modules/execution.py) ----
    max_retries,                \* config['max_retries']
    order_request,              \* the arguments of the call: position_size, entry_price
    pc_submit,                  \* where the call is: "start", "delay", "attempt", "backoff",
                                \* "returned", "raised"
    attempt,                    \* the loop variable of the retry loop
    randomized_size,            \* randomize_lot_size(position_size), in thousandths
    randomized_levels,          \* randomize_tp_sl of tp1, tp2 and the stop-loss, in thousandths
    submitted,                  \* history: the (amount, price) of every create_order call
    waits,                      \* history: the base delay of every backoff sleep, in tenths of a second
    human_delays,               \* history: add_human_like_delay calls
    all_failed,                 \* history: every create_order call so far raised
    submit_result,              \* what the call returned: "pending", "None" or the order
    \* ---- StateManager (src/modules/execution.py) and the data directory ----
    files,                      \* the data directory: file name -> [exists, data, complete]
    pc_save,                    \* where save_* is: "idle", "open", "write", "close", "rename"
    save_doc,                   \* the document being saved: "positions" or "trades"
    save_data,                  \* the list json.dump is writing, as JSON holds it
    save_arg,                   \* the argument of the save_* call
    pc_load,                    \* where a reader's load_* is: "idle", "open"
    load_doc,                   \* the document the reader loads
    load_result,                \* the last load_*: [doc, value, before, after], doc "none" at first
    before,                     \* history: per document, what load_* gave when the last save began
    after,                      \* history: per document, the list the last save writes
    saved_trades,               \* history: the arguments of the completed save_trade_history calls
    saves_done,                 \* history: completed save_* calls
    crashes,                    \* history: crashes of the saving process
    \* ---- pure functions: their inputs and results ----
    random_outcomes,            \* the two random() results of a call: k / 2^RandomBits
    partial_close,              \* randomize_partial_close_percentages: the last result
    size_input,                 \* RiskManager.position_size: entry_price, stop_loss, min lot
    size_result,                \* RiskManager.position_size: what it returned
    quote,                      \* RiskManager.spread_filter: bid, ask
    spread_result,              \* RiskManager.spread_filter: "none", "accepted", "rejected"
    \* ---- FirstRunSafetyTrade (src/modules/execution.py) ----
    marker_file,                \* data/hydra_first_run.done exists
    history_file,               \* data/trade_history.json as check_first_run_status reads it
    utcnow,                     \* datetime.utcnow(), as a day index
    clock_steps,                \* history: advances of utcnow
    safety_order,               \* the last execute_safety_trade gave: "none" (no call), "order", "None"
    first_run_status,           \* check_first_run_status on the present state, once called
    probe_completed,            \* history: create_marker_file ran after a safety trade gave an order
    history_damaged,            \* history: trade_history.json was damaged from outside the program
    \* ---- GracefulShutdown (src/modules/execution.py) ----
    exchange_orders,            \* the ids of the orders open on the exchange
    positions_doc,              \* open_positions.json as load_open_positions gives it
    trades_doc,                 \* trade_history.json as load_trade_history gives it
    pc_cleanup,                 \* where cleanup is: "idle", "fetch", "cancel", "save", "close",
                                \* "returned"
    cleanup_args,               \* the positions and trades arguments: [given, list] each
    sweep_orders,               \* the fetched orders cancel_pending_orders has still to cancel
    sweep_seconds,              \* the time spent inside asyncio.wait_for
    exit_code,                  \* what cleanup returned (-1: nothing yet)
    close_called,               \* exchange.close() was awaited
    pending_at_start,           \* history: exchange_orders when cleanup was called
    docs_at_start,              \* history: positions_doc and trades_doc when cleanup was called
    timed_out,                  \* history: asyncio.wait_for raised TimeoutError
    positions_at_close,         \* history: positions_doc when exchange.close() was called
    close_seconds,              \* history: how long exchange.close() took
    \* ---- Readers of the durable JSON files ----
    durable_file,               \* the file a reader is pointed at: on disk or not, readable or not, its JSON
    reader_result,              \* the last reader call: which reader, what it raised, what it returned
    \* ---- Restart recovery of the daily PnL, in exact decimal amounts ----
    ledger,                     \* daily_loss_accumulation and the file's cumulative_pnl of the running instance
    recovered,                  \* what a restart on the same date found: old and new accumulation and verdicts
    \* ---- TelegramNotifier._send_message ----
    notifier,                   \* enabled, bot present, and the max_retries of the call
    pc_send,                    \* where the call is: start, attempt, returned, raised
    send_attempt,               \* the loop variable attempt, counted from 0
    send_log,                   \* the outcome of every bot.send_message call so far
    send_sleeps,                \* the asyncio.sleep delays between attempts, in tenths of a second
    send_result,                \* what _send_message returned
    \* ---- DataStreamer: one (symbol, timeframe) cache ----
    exchange_candles,           \* the candles the exchange has for the pair, oldest first
    candles_cache,              \* candles_cache[symbol][timeframe]: the timestamps held, oldest first
    reconnect_delay,            \* reconnect_delay of stream_real_time_candles
    \* ---- SupportResistanceDetector: the stored zones ----
    sr_detector,                \* candle_count and zones of the detector
    new_candles,                \* candles that arrived since the zones were last rebuilt
    rebuilds,                   \* how many times update_zones recomputed the zones
    zones_returned,             \* what the last get_zones call returned
    \* ---- HydraXBot.run_event_loop and the SIGINT handler ----
    handler_installed,          \* setup_graceful_shutdown was called: its handler replaces the default one
    shutdown_event,             \* _shutdown_event is set
    pc_loop,                    \* where run_event_loop is: cycle, sleep, shutdown, done
    cycles,                     \* signal cycles started
    sigints,                    \* SIGINT signals delivered
    \* ---- SignalGenerator.generate_signal (src/modules/signal_generator.py) ----
    m5_candles,                 \* the M5 series of the call, oldest first: open, high, low, close in ticks
    m15_candles,                \* the M15 series: its length and the EMA50 / EMA200 calculate_ema gives for it
    h1_candles,                 \* the H1 series, oldest first
    current_bid_ask_spread,     \* the quoted spread of the call, in points
    atr_multipliers,            \* config: atr_multiplier_tp1 and atr_multiplier_tp2, in halves
    generator_sr,               \* candle_count and zones of the generator's SupportResistanceDetector
    signal_result,              \* the SignalResult of the last call
    signal_calls                \* history: generate_signal calls so far

riskVars == <<today, daily_pnl_file, daily_loss_accumulation, consecutive_loss_counter,
              check_result, inc_result, tracked, loaded_pnl, started, pnl_today,
              tripped, losses_since_reset, restarts, trades_total>>

submitVars == <<max_retries, order_request, pc_submit, attempt, randomized_size,
                randomized_levels, submitted, waits, human_delays, all_failed, submit_result>>

stateVars == <<files, pc_save, save_doc, save_data, save_arg, pc_load, load_doc, load_result,
               before, after, saved_trades, saves_done, crashes>>

partialVars == <<random_outcomes, partial_close>>
sizeVars == <<size_input, size_result>>
spreadVars == <<quote, spread_result>>

firstRunVars == <<marker_file, history_file, utcnow, clock_steps, safety_order, first_run_status,
                  probe_completed, history_damaged>>

shutdownVars == <<exchange_orders, positions_doc, trades_doc, pc_cleanup,
                  cleanup_args, sweep_orders, sweep_seconds, exit_code,
                  close_called, pending_at_start, docs_at_start, timed_out,
                  positions_at_close, close_seconds>>

readersVars == <<durable_file, reader_result>>
recoveryVars == <<ledger, recovered>>
notifyVars == <<notifier, pc_send, send_attempt, send_log, send_sleeps, send_result>>
streamVars == <<exchange_candles, candles_cache, reconnect_delay>>
zonesVars == <<sr_detector, new_candles, rebuilds, zones_returned>>
loopVars == <<handler_installed, shutdown_event, pc_loop, cycles, sigints>>
signalVars == <<m5_candles, m15_candles, h1_candles, current_bid_ask_spread,
                atr_multipliers, generator_sr, signal_result, signal_calls>>

vars == <<riskVars, submitVars, stateVars, partialVars, sizeVars, spreadVars,
          firstRunVars, shutdownVars, readersVars, recoveryVars, notifyVars,
          streamVars, zonesVars, loopVars, signalVars>>

(* What an operation of one component leaves alone: the other components *)
notRisk == <<submitVars, stateVars, partialVars, sizeVars, spreadVars,
             firstRunVars, shutdownVars, readersVars, recoveryVars,
             notifyVars, streamVars, zonesVars, loopVars, signalVars>>
notSubmit == <<riskVars, stateVars, partialVars, sizeVars, spreadVars,
               firstRunVars, shutdownVars, readersVars, recoveryVars,
               notifyVars, streamVars, zonesVars, loopVars, signalVars>>
notState == <<riskVars, submitVars, partialVars, sizeVars, spreadVars,
              firstRunVars, shutdownVars, readersVars, recoveryVars,
              notifyVars, streamVars, zonesVars, loopVars, signalVars>>
notPartial == <<riskVars, submitVars, stateVars, sizeVars, spreadVars,
                firstRunVars, shutdownVars, readersVars, recoveryVars,
                notifyVars, streamVars, zonesVars, loopVars, signalVars>>
notSize == <<riskVars, submitVars, stateVars, partialVars, spreadVars,
             firstRunVars, shutdownVars, readersVars, recoveryVars,
             notifyVars, streamVars, zonesVars, loopVars, signalVars>>
notSpread == <<riskVars, submitVars, stateVars, partialVars, sizeVars,
               firstRunVars, shutdownVars, readersVars, recoveryVars,
               notifyVars, streamVars, zonesVars, loopVars, signalVars>>
notFirstRun == <<riskVars, submitVars, stateVars, partialVars, sizeVars,
                 spreadVars, shutdownVars, readersVars, recoveryVars,
                 notifyVars, streamVars, zonesVars, loopVars, signalVars>>
notShutdown == <<riskVars, submitVars, stateVars, partialVars, sizeVars,
                 spreadVars, firstRunVars, readersVars, recoveryVars,
                 notifyVars, streamVars, zonesVars, loopVars, signalVars>>
notReaders == <<riskVars, submitVars, stateVars, partialVars, sizeVars,
                spreadVars, firstRunVars, shutdownVars, recoveryVars,
                notifyVars, streamVars, zonesVars, loopVars, signalVars>>
notRecovery == <<riskVars, submitVars, stateVars, partialVars, sizeVars,
                 spreadVars, firstRunVars, shutdownVars, readersVars,
                 notifyVars, streamVars, zonesVars, loopVars, signalVars>>
notNotify == <<riskVars, submitVars, stateVars, partialVars, sizeVars,
               spreadVars, firstRunVars, shutdownVars, readersVars,
               recoveryVars, streamVars, zonesVars, loopVars, signalVars>>
notStream == <<riskVars, submitVars, stateVars, partialVars, sizeVars,
               spreadVars, firstRunVars, shutdownVars, readersVars,
               recoveryVars, notifyVars, zonesVars, loopVars, signalVars>>
notZones == <<riskVars, submitVars, stateVars, partialVars, sizeVars,
              spreadVars, firstRunVars, shutdownVars, readersVars,
              recoveryVars, notifyVars, streamVars, loopVars, signalVars>>
notLoop == <<riskVars, submitVars, stateVars, partialVars, sizeVars,
             spreadVars, firstRunVars, shutdownVars, readersVars,
             recoveryVars, notifyVars, streamVars, zonesVars, signalVars>>
notSignal == <<riskVars, submitVars, stateVars, partialVars, sizeVars,
               spreadVars, firstRunVars, shutdownVars, readersVars,
               recoveryVars, notifyVars, streamVars, zonesVars, loopVars>>

-----------------------------------------------------------------------------
(* Bounds of the model *)

MaxTrades == 3          \* track_daily_pnl calls in one run of the model
MaxDays == 1            \* date rollovers
MaxRestarts == 1        \* RiskManager re-constructions
MaxLossCount == 4       \* increment_consecutive_losses calls without a reset
MaxRetriesBound == 6    \* the largest config['max_retries'] tried
MaxHistory == 2         \* records in trade_history.json
MaxSaves == 3           \* save_* calls in one run of the model
MaxCrashes == 1         \* crashes of the saving process
RandomBits == 4         \* random() is a multiple of 2^-RandomBits
MaxStopDistance == 10   \* the largest |entry_price - stop_loss| tried
QuoteRange == 5         \* bid and ask are within QuoteRange of 200
MaxClockSteps == 3      \* advances of the clock of the first-run check
MaxItems == 2           \* elements of a JSON array in a durable file
MaxTracked == 3         \* track_daily_pnl calls before the restart
MaxSendRetries == 5     \* the largest max_retries passed to _send_message
MaxCandles == 4         \* candles the exchange comes to hold for the pair
MaxReconnectDelay == 4  \* reconnect_delay is followed up to this value
cache_size == 6         \* config['data_streaming']['candle_cache_size'] of the model
MaxNewCandles == 120    \* candles arriving between two rebuilds of the zones
MaxRebuilds == 3        \* rebuilds of the zones followed
MaxCycles == 30         \* signal cycles of the event loop followed
MaxSigints == 2         \* SIGINT signals delivered to the process
MaxSignalCalls == 2     \* generate_signal calls on one generator

(* The realised PnL of a closed trade *)
PnlValues == {-300, -200, -150, 250}

-----------------------------------------------------------------------------
(* RiskManager configuration: the defaults of RiskManager.__init__ *)

account_balance == 10000
max_daily_loss_pct == 5
max_consecutive_losses == 2

RECURSIVE SumSeq(_)
SumSeq(s) == IF s = <<>> THEN 0 ELSE Head(s) + SumSeq(Tail(s))

(* _reset_daily_pnl: the document of a day on which nothing was traded *)
reset_daily_pnl_data ==
    [kind |-> "json", date |-> today, cumulative_pnl |-> 0, trades_today |-> 0,
     winning_trades |-> 0, losing_trades |-> 0]

(* json.load succeeds on the file *)
IsDocument(f) == f.kind = "json"

(* _load_daily_pnl: the accumulation a new RiskManager starts with *)
load_daily_pnl_value ==
    IF IsDocument(daily_pnl_file) /\ daily_pnl_file.date = today
    THEN daily_pnl_file.cumulative_pnl
    ELSE 0

(* _load_daily_pnl: the file it leaves behind *)
load_daily_pnl_file ==
    IF IsDocument(daily_pnl_file) /\ daily_pnl_file.date = today
    THEN daily_pnl_file
    ELSE reset_daily_pnl_data

(* check_daily_loss_limit *)
check_daily_loss_limit_strict(acc) ==
    LET max_daily_loss == (account_balance * max_daily_loss_pct) \div 100
    IN  IF acc < -max_daily_loss THEN "blocked" ELSE "allowed"

check_daily_loss_limit(acc) ==
    LET max_daily_loss == (account_balance * max_daily_loss_pct) \div 100
    IN  IF acc <= -max_daily_loss THEN "blocked" ELSE "allowed"

(* increment_consecutive_losses: the verdict on the incremented counter *)
consecutive_loss_verdict_late(counter) ==
    IF counter > max_consecutive_losses THEN "blocked" ELSE "allowed"

consecutive_loss_verdict(counter) ==
    IF counter >= max_consecutive_losses THEN "blocked" ELSE "allowed"

-----------------------------------------------------------------------------
(* RiskManager operations *)

InitRisk ==
    /\ today = 0
    /\ daily_pnl_file = [kind |-> "json", date |-> 0, cumulative_pnl |-> 0, trades_today |-> 0,
                         winning_trades |-> 0, losing_trades |-> 0]
    /\ daily_loss_accumulation = 0
    /\ consecutive_loss_counter = 0
    /\ check_result = "none"
    /\ inc_result = "none"
    /\ tracked = <<>>
    /\ loaded_pnl = 0
    /\ started = 0
    /\ pnl_today = 0
    /\ tripped = -1
    /\ losses_since_reset = 0
    /\ restarts = 0
    /\ trades_total = 0

(* track_daily_pnl(pnl) *)
TrackDailyPnl ==
    \E pnl \in PnlValues :
        /\ trades_total < MaxTrades
        /\ trades_total' = trades_total + 1
        /\ daily_loss_accumulation' = daily_loss_accumulation + pnl
        /\ LET data == IF IsDocument(daily_pnl_file) THEN daily_pnl_file
                       ELSE reset_daily_pnl_data
           IN  daily_pnl_file' =
                   [data EXCEPT !.cumulative_pnl = @ + pnl,
                                !.trades_today = @ + 1,
                                !.winning_trades = IF pnl > 0 THEN @ + 1 ELSE @,
                                !.losing_trades = IF pnl > 0 THEN @ ELSE @ + 1]
        /\ tracked' = Append(tracked, pnl)
        /\ pnl_today' = pnl_today + pnl
        /\ check_result' = "none"
        /\ UNCHANGED <<today, consecutive_loss_counter, inc_result, loaded_pnl,
                       started, tripped, losses_since_reset, restarts>>
        /\ UNCHANGED notRisk

(* check_daily_loss_limit() *)
CheckDailyLossLimit ==
    /\ check_result' = check_daily_loss_limit(daily_loss_accumulation)
    /\ tripped' = IF check_result' = "blocked" THEN today ELSE tripped
    /\ UNCHANGED <<today, daily_pnl_file, daily_loss_accumulation,
                   consecutive_loss_counter, inc_result, tracked, loaded_pnl,
                   started, pnl_today, losses_since_reset, restarts, trades_total>>
    /\ UNCHANGED notRisk

(* increment_consecutive_losses() *)
IncrementConsecutiveLosses ==
    /\ consecutive_loss_counter < MaxLossCount
    /\ consecutive_loss_counter' = consecutive_loss_counter + 1
    /\ inc_result' = consecutive_loss_verdict(consecutive_loss_counter')
    /\ losses_since_reset' = losses_since_reset + 1
    /\ UNCHANGED <<today, daily_pnl_file, daily_loss_accumulation, check_result,
                   tracked, loaded_pnl, started, pnl_today, tripped, restarts, trades_total>>
    /\ UNCHANGED notRisk

(* reset_consecutive_losses() *)
ResetConsecutiveLosses ==
    /\ consecutive_loss_counter' = 0
    /\ inc_result' = "none"
    /\ losses_since_reset' = 0
    /\ UNCHANGED <<today, daily_pnl_file, daily_loss_accumulation, check_result,
                   tracked, loaded_pnl, started, pnl_today, tripped, restarts, trades_total>>
    /\ UNCHANGED notRisk

(* The wall clock passes midnight UTC: no code of RiskManager runs *)
DateRollover ==
    /\ today < MaxDays
    /\ today' = today + 1
    /\ pnl_today' = 0
    /\ check_result' = "none"
    /\ UNCHANGED <<daily_pnl_file, daily_loss_accumulation, consecutive_loss_counter,
                   inc_result, tracked, loaded_pnl, started, tripped,
                   losses_since_reset, restarts, trades_total>>
    /\ UNCHANGED notRisk

(* The process restarts: RiskManager.__init__ over the same data directory *)
RestartRiskManager ==
    /\ restarts < MaxRestarts
    /\ restarts' = restarts + 1
    /\ consecutive_loss_counter' = 0
    /\ daily_loss_accumulation' = load_daily_pnl_value
    /\ daily_pnl_file' = load_daily_pnl_file
    /\ loaded_pnl' = load_daily_pnl_value
    /\ started' = today
    /\ tracked' = <<>>
    /\ losses_since_reset' = 0
    /\ check_result' = "none"
    /\ inc_result' = "none"
    /\ UNCHANGED <<today, pnl_today, tripped, trades_total>>
    /\ UNCHANGED notRisk

NextRisk ==
    \/ TrackDailyPnl
    \/ CheckDailyLossLimit
    \/ IncrementConsecutiveLosses
    \/ ResetConsecutiveLosses
    \/ DateRollover
    \/ RestartRiskManager

-----------------------------------------------------------------------------
(* OrderExecutor.submit_order_with_retry.  The position size and the prices *)
(* of an order are positive, as with every caller in the repository.        *)

(* position_size and entry_price of the orders submitted *)
SizeValues == {1, 2}
PriceValues == {100, 105}

(* config.get('lot_variance_pct', 3.0) *)
lot_variance_pct == 3

(* random.gauss(1.0, lot_variance_pct / 100 / 3), in thousandths *)
GaussOutcomes == {960, 1000, 1030}

(* What exchange.create_order raises when it fails *)
CreateOrderErrors == {"Exception", "NetworkError"}

(* retry_initial_delay, retry_max_delay in tenths of a second; retry_backoff_multiplier *)
retry_initial_delay == 5
retry_max_delay == 50
retry_backoff_multiplier == 2

RECURSIVE Power(_, _)
Power(b, e) == IF e = 0 THEN 1 ELSE b * Power(b, e - 1)

Min(a, b) == IF a <= b THEN a ELSE b

(* randomize_lot_size: base_size * variance_factor *)
randomize_lot_size(base_size, variance_factor) == base_size * variance_factor

(* random.uniform(1 - tp_sl_variance_pct / 100, 1 + tp_sl_variance_pct / 100), *)
(* in thousandths                                                              *)
UniformOutcomes == {990, 1010}

(* randomize_tp_sl: price * variance_factor *)
randomize_tp_sl(price, variance_factor) == price * variance_factor

(* The take-profit and stop-loss prices passed with an entry price *)
OrderRequests ==
    {[position_size |-> size, entry_price |-> price, stop_loss |-> price - 2,
      tp1_price |-> price + 2, tp2_price |-> price + 4] :
         size \in SizeValues, price \in PriceValues}

NoLevels == [tp1 |-> 0, tp2 |-> 0, sl |-> 0]

(* return order: the caller gets what create_order returned *)
returned_order_resized(order) == [order EXCEPT !.amount = 0]

returned_order(order) == order

(* except Exception: every error create_order raises is an Exception *)
caught_by_except(error) == error \in {"Exception", "NetworkError"}

(* if attempt < max_retries: another attempt follows the failed one *)
retry_follows_short(k, n) == k + 1 < n

retry_follows(k, n) == k < n

(* min(initial_delay * backoff_multiplier ** (attempt - 1), max_delay) *)
backoff_delay_uncapped(k) == retry_initial_delay * Power(retry_backoff_multiplier, k - 1)

backoff_delay(k) ==
    Min(retry_initial_delay * Power(retry_backoff_multiplier, k - 1), retry_max_delay)

ParkSubmit ==
    /\ max_retries = 1
    /\ order_request = [position_size |-> 1, entry_price |-> 100, stop_loss |-> 98,
                        tp1_price |-> 102, tp2_price |-> 104]
    /\ pc_submit = "start"
    /\ attempt = 0
    /\ randomized_size = 0
    /\ randomized_levels = NoLevels
    /\ submitted = <<>>
    /\ waits = <<>>
    /\ human_delays = 0
    /\ all_failed = TRUE
    /\ submit_result = "pending"

(* A call of submit_order_with_retry is entered *)
InitSubmit ==
    /\ max_retries \in 1..MaxRetriesBound
    /\ order_request \in OrderRequests
    /\ pc_submit = "start"
    /\ attempt = 0
    /\ randomized_size = 0
    /\ randomized_levels = NoLevels
    /\ submitted = <<>>
    /\ waits = <<>>
    /\ human_delays = 0
    /\ all_failed = TRUE
    /\ submit_result = "pending"

(* Lines 215-223: the configuration is read and the order is randomized *)
RandomizeOrder ==
    /\ pc_submit = "start"
    /\ \E g \in GaussOutcomes :
          randomized_size' = randomize_lot_size(order_request.position_size, g)
    /\ \E u1 \in UniformOutcomes, u2 \in UniformOutcomes, u3 \in UniformOutcomes :
          randomized_levels' = [tp1 |-> randomize_tp_sl(order_request.tp1_price, u1),
                                tp2 |-> randomize_tp_sl(order_request.tp2_price, u2),
                                sl |-> randomize_tp_sl(order_request.stop_loss, u3)]
    /\ pc_submit' = "delay"
    /\ UNCHANGED <<max_retries, order_request, attempt, submitted, waits,
                   human_delays, all_failed, submit_result>>
    /\ UNCHANGED notSubmit

(* Line 225: await self.add_human_like_delay(), then the loop is entered *)
HumanLikeDelay ==
    /\ pc_submit = "delay"
    /\ human_delays' = human_delays + 1
    /\ attempt' = 1
    /\ pc_submit' = IF 1 <= max_retries THEN "attempt" ELSE "returned"
    /\ submit_result' = IF 1 <= max_retries THEN submit_result ELSE "None"
    /\ UNCHANGED <<max_retries, order_request, randomized_size, randomized_levels,
                   submitted, waits,
                   all_failed>>
    /\ UNCHANGED notSubmit

(* Lines 242-251: create_order returns an order, which is returned *)
CreateOrderSucceeds ==
    /\ pc_submit = "attempt"
    /\ submitted' = Append(submitted, [amount |-> randomized_size,
                                       price |-> order_request.entry_price])
    /\ all_failed' = FALSE
    /\ submit_result' = returned_order([id |-> Len(submitted) + 1,
                                         amount |-> randomized_size,
                                         price |-> order_request.entry_price])
    /\ pc_submit' = "returned"
    /\ UNCHANGED <<max_retries, order_request, attempt, randomized_size,
                   randomized_levels, waits,
                   human_delays>>
    /\ UNCHANGED notSubmit

(* Lines 242-263: create_order raises *)
CreateOrderFails ==
    /\ pc_submit = "attempt"
    /\ submitted' = Append(submitted, [amount |-> randomized_size,
                                       price |-> order_request.entry_price])
    /\ \E error \in CreateOrderErrors :
          IF ~caught_by_except(error)
          THEN /\ pc_submit' = "raised"
               /\ UNCHANGED <<waits, submit_result>>
          ELSE IF retry_follows(attempt, max_retries)
          THEN /\ pc_submit' = "backoff"
               /\ waits' = Append(waits, backoff_delay(attempt))
               /\ UNCHANGED submit_result
          ELSE /\ pc_submit' = "returned"
               /\ submit_result' = "None"
               /\ UNCHANGED waits
    /\ UNCHANGED <<max_retries, order_request, attempt, randomized_size, randomized_levels,
                   human_delays, all_failed>>
    /\ UNCHANGED notSubmit

(* Line 260: await asyncio.sleep(delay) ends and the loop goes on *)
BackoffSleepEnds ==
    /\ pc_submit = "backoff"
    /\ attempt' = attempt + 1
    /\ pc_submit' = IF attempt + 1 <= max_retries THEN "attempt" ELSE "returned"
    /\ submit_result' = IF attempt + 1 <= max_retries THEN submit_result ELSE "None"
    /\ UNCHANGED <<max_retries, order_request, randomized_size, randomized_levels,
                   submitted, waits,
                   human_delays, all_failed>>
    /\ UNCHANGED notSubmit

NextSubmit ==
    \/ RandomizeOrder
    \/ HumanLikeDelay
    \/ CreateOrderSucceeds
    \/ CreateOrderFails
    \/ BackoffSleepEnds

-----------------------------------------------------------------------------
(* StateManager: the durable documents of the data directory, a process    *)
(* that saves them and a reader process (the dashboard, or the restarted   *)
(* bot) that loads them.  A file is [exists, data, complete]: data is the  *)
(* list of the records written so far, complete says json.load parses it.  *)

Documents == {"positions", "trades"}

FileNames == {"open_positions.json", "open_positions.tmp",
              "trade_history.json", "trade_history.tmp"}

TempNames == {"open_positions.tmp", "trade_history.tmp"}

NoFile == [exists |-> FALSE, data |-> <<>>, complete |-> FALSE]

(* self.open_positions_file, self.trade_history_file *)
target_file(doc) ==
    IF doc = "positions" THEN "open_positions.json" ELSE "trade_history.json"

(* <file>.with_suffix('.tmp') *)
temp_file_in_place(doc) == target_file(doc)

temp_file(doc) ==
    IF doc = "positions" THEN "open_positions.tmp" ELSE "trade_history.tmp"

(* A field value: a str, which JSON holds, or a datetime, which it does not *)
StrValue(t) == [type |-> "str", text |-> t]
DatetimeValue(t) == [type |-> "datetime", text |-> t]

(* The trade records given to save_trade_history *)
TradeValues ==
    { [symbol |-> "BTC/USDT", pnl |-> 500, entry_time |-> StrValue("t1")],
      [symbol |-> "ETH/USDT", pnl |-> -100, entry_time |-> DatetimeValue("t2")] }

(* The position lists given to save_open_positions *)
PositionLists ==
    { <<>>,
      << [symbol |-> "BTC/USDT", pnl |-> 200, entry_time |-> StrValue("t0")] >>,
      << [symbol |-> "BTC/USDT", pnl |-> 200, entry_time |-> StrValue("t0")],
         [symbol |-> "ETH/USDT", pnl |-> 0, entry_time |-> StrValue("t3")] >> }

(* json.dump(..., default=str): a value JSON cannot hold is written as str(value) *)
json_default(value) == [type |-> "str", text |-> value.text]

json_field(value) == IF value.type = "str" THEN value ELSE json_default(value)

json_record(record) == [record EXCEPT !.entry_time = json_field(@)]

(* What json.load gives back for what json.dump wrote *)
json_dump(list) == [i \in 1..Len(list) |-> json_record(list[i])]

(* load_trade_history / load_open_positions on a file *)
load_view(file) == IF file.exists /\ file.complete THEN file.data ELSE <<>>

(* save_trade_history: trades = self.load_trade_history(); trades.append(trade) *)
appended_trades_only_new(trades, trade) == <<trade>>

appended_trades(trades, trade) == Append(trades, trade)

(* os.rename(temp_file, target): what is left under the old name *)
renamed_source_copy(file) == file

renamed_source(file) == NoFile

InitState ==
    /\ files = [n \in FileNames |-> NoFile]
    /\ pc_save = "idle"
    /\ save_doc = "positions"
    /\ save_data = <<>>
    /\ save_arg = <<>>
    /\ pc_load = "idle"
    /\ load_doc = "positions"
    /\ load_result = [doc |-> "none", value |-> <<>>, before |-> <<>>, after |-> <<>>,
                      partial |-> FALSE, during |-> "idle", crashes |-> 0]
    /\ before = [d \in Documents |-> <<>>]
    /\ after = [d \in Documents |-> <<>>]
    /\ saved_trades = <<>>
    /\ saves_done = 0
    /\ crashes = 0

(* save_open_positions(positions) is entered *)
BeginSaveOpenPositions ==
    /\ pc_save = "idle"
    /\ saves_done + crashes < MaxSaves
    /\ \E positions \in PositionLists :
          /\ save_data' = json_dump(positions)
          /\ save_arg' = positions
          /\ after' = [after EXCEPT !["positions"] = json_dump(positions)]
    /\ save_doc' = "positions"
    /\ before' = [before EXCEPT !["positions"] = load_view(files[target_file("positions")])]
    /\ pc_save' = "open"
    /\ UNCHANGED <<files, pc_load, load_doc, load_result, saved_trades, saves_done,
                   crashes>>
    /\ UNCHANGED notState

(* save_trade_history(trade) is entered: lines 33-34 *)
BeginSaveTradeHistory ==
    /\ pc_save = "idle"
    /\ saves_done + crashes < MaxSaves
    /\ Len(load_view(files[target_file("trades")])) < MaxHistory
    /\ \E trade \in TradeValues :
          LET trades == appended_trades(load_view(files[target_file("trades")]), trade)
          IN  /\ save_data' = json_dump(trades)
              /\ save_arg' = trade
              /\ after' = [after EXCEPT !["trades"] = json_dump(trades)]
    /\ save_doc' = "trades"
    /\ before' = [before EXCEPT !["trades"] = load_view(files[target_file("trades")])]
    /\ pc_save' = "open"
    /\ UNCHANGED <<files, pc_load, load_doc, load_result, saved_trades, saves_done,
                   crashes>>
    /\ UNCHANGED notState

(* open(temp_file, 'w'): the file is created, or truncated, and is empty *)
OpenTemp ==
    /\ pc_save = "open"
    /\ files' = [files EXCEPT ![temp_file(save_doc)] =
                     [exists |-> TRUE, data |-> <<>>, complete |-> FALSE]]
    /\ pc_save' = "write"
    /\ UNCHANGED <<save_doc, save_data, save_arg, pc_load, load_doc, load_result,
                   before, after, saved_trades, saves_done, crashes>>
    /\ UNCHANGED notState

(* json.dump: one more record reaches the file *)
WriteRecord ==
    /\ pc_save = "write"
    /\ LET name == temp_file(save_doc)
           n == Len(files[name].data)
       IN  /\ n < Len(save_data)
           /\ files' = [files EXCEPT ![name].data = Append(@, save_data[n + 1])]
    /\ UNCHANGED <<pc_save, save_doc, save_data, save_arg, pc_load, load_doc,
                   load_result, before, after, saved_trades, saves_done, crashes>>
    /\ UNCHANGED notState

(* The with block ends: the text is whole and the file is closed *)
CloseTemp ==
    /\ pc_save = "write"
    /\ LET name == temp_file(save_doc)
       IN  /\ Len(files[name].data) = Len(save_data)
           /\ files' = [files EXCEPT ![name].complete = TRUE]
    /\ pc_save' = "rename"
    /\ UNCHANGED <<save_doc, save_data, save_arg, pc_load, load_doc, load_result,
                   before, after, saved_trades, saves_done, crashes>>
    /\ UNCHANGED notState

(* os.rename(temp_file, target), and save_* returns *)
RenameTemp ==
    /\ pc_save = "rename"
    /\ LET src == temp_file(save_doc)
           dst == target_file(save_doc)
       IN  files' = IF src = dst THEN files
                    ELSE [files EXCEPT ![dst] = files[src],
                                       ![src] = renamed_source(files[src])]
    /\ pc_save' = "idle"
    /\ saves_done' = saves_done + 1
    /\ saved_trades' = IF save_doc = "trades" THEN Append(saved_trades, save_arg)
                       ELSE saved_trades
    /\ UNCHANGED <<save_doc, save_data, save_arg, pc_load, load_doc, load_result,
                   before, after, crashes>>
    /\ UNCHANGED notState

(* A reader enters load_*: if not self.<file>.exists(): return [] *)
LoadChecksExists ==
    /\ pc_load = "idle"
    /\ \E doc \in Documents :
          /\ load_doc' = doc
          /\ IF files[target_file(doc)].exists
             THEN /\ pc_load' = "open"
                  /\ UNCHANGED load_result
             ELSE /\ pc_load' = "idle"
                  /\ load_result' = [doc |-> doc, value |-> <<>>,
                                     before |-> before[doc], after |-> after[doc],
                                     partial |-> FALSE, during |-> pc_save,
                                     crashes |-> crashes]
    /\ UNCHANGED <<files, pc_save, save_doc, save_data, save_arg, before, after,
                   saved_trades, saves_done, crashes>>
    /\ UNCHANGED notState

(* The reader opens the file and json.load reads it; except: return [] *)
LoadReads ==
    /\ pc_load = "open"
    /\ LET file == files[target_file(load_doc)]
       IN  load_result' = [doc |-> load_doc, value |-> load_view(file),
                           before |-> before[load_doc], after |-> after[load_doc],
                           partial |-> file.exists /\ ~file.complete,
                           during |-> pc_save, crashes |-> crashes]
    /\ pc_load' = "idle"
    /\ UNCHANGED <<files, pc_save, save_doc, save_data, save_arg, load_doc, before,
                   after, saved_trades, saves_done, crashes>>
    /\ UNCHANGED notState

(* The saving process dies inside save_*: the files stay as they are *)
CrashInSave ==
    /\ pc_save # "idle"
    /\ crashes < MaxCrashes
    /\ crashes' = crashes + 1
    /\ pc_save' = "idle"
    /\ UNCHANGED <<files, save_doc, save_data, save_arg, pc_load, load_doc,
                   load_result, before, after, saved_trades, saves_done>>
    /\ UNCHANGED notState

NextState ==
    \/ BeginSaveOpenPositions
    \/ BeginSaveTradeHistory
    \/ OpenTemp
    \/ WriteRecord
    \/ CloseTemp
    \/ RenameTemp
    \/ LoadChecksExists
    \/ LoadReads

NextCrash ==
    \/ NextState
    \/ CrashInSave

-----------------------------------------------------------------------------
(* OrderExecutor.randomize_partial_close_percentages.                        *)
(*                                                                           *)
(* Its values are Python floats (binary64).  A float f >= 0 is the natural   *)
(* number f * 2^FloatUnitBits, kept as two limbs [hi, lo]: hi * Limb + lo.   *)
(* 2^-55 is the spacing of the floats in [0.125, 0.25), the smallest values  *)
(* computed here, and random() returns k / 2^RandomBits, so every value and  *)
(* every exact intermediate result is such a natural number below 2^61.      *)

Limb == 1073741824
HalfLimb == 32768
mantissa_bits == 53
FloatUnitBits == 55 + RandomBits

big(hi, lo) == [hi |-> hi, lo |-> lo]

big_add(x, y) ==
    LET lo == x.lo + y.lo
    IN  big(x.hi + y.hi + (lo \div Limb), lo % Limb)

(* x - y, for x >= y *)
big_sub(x, y) ==
    IF x.lo >= y.lo THEN big(x.hi - y.hi, x.lo - y.lo)
    ELSE big(x.hi - y.hi - 1, (x.lo - y.lo) + Limb)

big_leq(x, y) == x.hi < y.hi \/ (x.hi = y.hi /\ x.lo <= y.lo)

(* x * k, for k < 2^15; HalfLimb * HalfLimb = Limb *)
big_times(x, k) ==
    LET low == (x.lo % HalfLimb) * k
        high == (x.lo \div HalfLimb) * k + (low \div HalfLimb)
    IN  big(x.hi * k + (high \div HalfLimb), (high % HalfLimb) * HalfLimb + (low % HalfLimb))

shift_left(x, bits) == big_times(x, Power(2, bits))

(* x / 2^bits, for x a multiple of 2^bits *)
shift_right(x, bits) ==
    big(x.hi \div Power(2, bits),
        (x.lo \div Power(2, bits)) + (x.hi % Power(2, bits)) * (Limb \div Power(2, bits)))

RECURSIVE bit_length(_)
bit_length(n) == IF n = 0 THEN 0 ELSE 1 + bit_length(n \div 2)

(* The float nearest to the exact result x: mantissa_bits significant bits, *)
(* a tie going to the even mantissa                                          *)
fl(x) ==
    LET bits == IF x.hi = 0 THEN bit_length(x.lo) ELSE 30 + bit_length(x.hi)
    IN  IF bits <= mantissa_bits THEN x
        ELSE LET spacing == Power(2, bits - mantissa_bits)
                 rest == x.lo % spacing
                 down == big(x.hi, x.lo - rest)
                 up == 2 * rest > spacing
                       \/ (2 * rest = spacing /\ (x.lo \div spacing) % 2 = 1)
             IN  IF up THEN big_add(down, big(0, spacing)) ELSE down

(* A float literal, from its value in units of 2^-55 *)
binary64(hi, lo) == shift_left(big(hi, lo), RandomBits)

float_one == binary64(33554432, 0)          \* 1.0
tp1_pct_low == binary64(9395240, 1030792152)    \* 0.28
tp1_pct_high == binary64(11744051, 214748364)   \* 0.35
tp2_pct_low == binary64(12750684, 171798692)    \* 0.38
tp2_pct_high == binary64(14092861, 472446402)   \* 0.42
runner_pct_low == binary64(7717519, 386547057)   \* 0.23
runner_pct_high == binary64(11408506, 944892806) \* 0.34

(* x * random(), random() being k / 2^RandomBits; x is a difference of two  *)
(* literals, a multiple of 2^RandomBits                                      *)
times_random(x, k) == fl(big_times(shift_right(x, RandomBits), k))

(* random.uniform(a, b) = a + (b - a) * random() *)
uniform(a, b, k) == fl(big_add(a, times_random(fl(big_sub(b, a)), k)))

(* randomize_partial_close_percentages, from the two random() outcomes *)
randomize_partial_close_percentages_no_tp2(k1, k2) ==
    LET tp1_pct == uniform(tp1_pct_low, tp1_pct_high, k1)
        tp2_pct == uniform(tp2_pct_low, tp2_pct_high, k2)
    IN  [tp1 |-> tp1_pct, tp2 |-> tp2_pct, runner |-> fl(big_sub(float_one, tp1_pct))]

randomize_partial_close_percentages(k1, k2) ==
    LET tp1_pct == uniform(tp1_pct_low, tp1_pct_high, k1)
        tp2_pct == uniform(tp2_pct_low, tp2_pct_high, k2)
        runner_pct == fl(big_sub(fl(big_sub(float_one, tp1_pct)), tp2_pct))
    IN  [tp1 |-> tp1_pct, tp2 |-> tp2_pct, runner |-> runner_pct]

(* tp1_pct + tp2_pct + runner_pct, as Python evaluates it *)
float_sum(pct) == fl(big_add(fl(big_add(pct.tp1, pct.tp2)), pct.runner))

RandomOutcomes == 0..(Power(2, RandomBits) - 1)

ParkPartial ==
    /\ random_outcomes = [k1 |-> 0, k2 |-> 0]
    /\ partial_close = [calls |-> 0, tp1 |-> big(0, 0), tp2 |-> big(0, 0), runner |-> big(0, 0)]

InitPartial ==
    /\ random_outcomes \in [k1 : RandomOutcomes, k2 : RandomOutcomes]
    /\ partial_close = [calls |-> 0, tp1 |-> big(0, 0), tp2 |-> big(0, 0), runner |-> big(0, 0)]

RandomizePartialClosePercentages ==
    /\ partial_close.calls = 0
    /\ LET pct == randomize_partial_close_percentages(random_outcomes.k1, random_outcomes.k2)
       IN  partial_close' = [calls |-> 1, tp1 |-> pct.tp1, tp2 |-> pct.tp2,
                             runner |-> pct.runner]
    /\ UNCHANGED random_outcomes
    /\ UNCHANGED notPartial

NextPartial == RandomizePartialClosePercentages

-----------------------------------------------------------------------------
(* RiskManager.position_size.  Prices and the risk amount are integers; a   *)
(* size is a decimal with size_decimals places, [whole, frac]: whole +      *)
(* frac / 10^size_decimals.                                                 *)

risk_percent_x100 == 175
size_decimals == 8

SizeUnit == Power(10, size_decimals)

(* The entry and stop-loss prices tried *)
SizePrices == (100 - MaxStopDistance)..100

(* exchange_min_lot_size: the default 0.001, and a lot of 40 *)
MinLotValues == { [whole |-> 0, frac |-> 100000], [whole |-> 40, frac |-> 0] }

Abs(x) == IF x < 0 THEN -x ELSE x

(* risk_amount = account_balance * (risk_percent / 100.0) *)
risk_amount == (account_balance * risk_percent_x100) \div 10000

(* round(risk_amount / sl_distance, 8) *)
rounded_quotient(n, d) ==
    LET scaled == (n % d) * SizeUnit
        down == scaled \div d
        rest == scaled % d
        up == 2 * rest > d \/ (2 * rest = d /\ down % 2 = 1)
        frac == IF up THEN down + 1 ELSE down
    IN  IF frac = SizeUnit THEN [whole |-> (n \div d) + 1, frac |-> 0]
        ELSE [whole |-> n \div d, frac |-> frac]

(* calculated_size >= exchange_min_lot_size *)
quotient_at_least(n, d, lot) ==
    \/ n \div d > lot.whole
    \/ n \div d = lot.whole /\ ((n % d) * SizeUnit) \div d >= lot.frac

(* position_size(entry_price, stop_loss) *)
position_size_no_floor(entry_price, stop_loss, min_lot) ==
    IF entry_price = stop_loss THEN [whole |-> 0, frac |-> 0]
    ELSE rounded_quotient(risk_amount, Abs(entry_price - stop_loss))

position_size(entry_price, stop_loss, min_lot) ==
    IF entry_price = stop_loss THEN [whole |-> 0, frac |-> 0]
    ELSE LET sl_distance == Abs(entry_price - stop_loss)
         IN  IF quotient_at_least(risk_amount, sl_distance, min_lot)
             THEN rounded_quotient(risk_amount, sl_distance)
             ELSE min_lot

ParkSize ==
    /\ size_input = [entry_price |-> 100, stop_loss |-> 95,
                     min_lot |-> [whole |-> 0, frac |-> 100000]]
    /\ size_result = [set |-> FALSE, whole |-> 0, frac |-> 0]

InitSize ==
    /\ size_input \in [entry_price : SizePrices, stop_loss : SizePrices,
                       min_lot : MinLotValues]
    /\ size_result = [set |-> FALSE, whole |-> 0, frac |-> 0]

PositionSize ==
    /\ ~size_result.set
    /\ LET size == position_size(size_input.entry_price, size_input.stop_loss,
                                 size_input.min_lot)
       IN  size_result' = [set |-> TRUE, whole |-> size.whole, frac |-> size.frac]
    /\ UNCHANGED size_input
    /\ UNCHANGED notSize

NextSize == PositionSize

-----------------------------------------------------------------------------
(* RiskManager.spread_filter.  Prices are integers. *)

max_spread_points == 50

(* The quotes tried: non-positive prices and prices around 200, where one   *)
(* price step is 50 points                                                  *)
QuotePrices == {-1, 0} \cup (200 - QuoteRange)..(200 + QuoteRange)

(* spread_filter(bid, ask): spread_points = (ask - bid) / bid * 10000 *)
spread_filter(bid, ask) ==
    IF bid <= 0 \/ ask <= 0 \/ bid > ask THEN "rejected"
    ELSE IF (ask - bid) * 10000 < max_spread_points * bid THEN "accepted"
    ELSE "rejected"

ParkSpread ==
    /\ quote = [bid |-> 200, ask |-> 200]
    /\ spread_result = "none"

InitSpread ==
    /\ quote \in [bid : QuotePrices, ask : QuotePrices]
    /\ spread_result = "none"

SpreadFilter ==
    /\ spread_result = "none"
    /\ spread_result' = spread_filter(quote.bid, quote.ask)
    /\ UNCHANGED quote
    /\ UNCHANGED notSpread

NextSpread == SpreadFilter

-----------------------------------------------------------------------------
(* FirstRunSafetyTrade: the marker file, trade_history.json as                *)
(* check_first_run_status reads it, and the clock.  A time field of a trade   *)
(* record is [kind, day]: kind "time" for an ISO string of that day,          *)
(* "absent" for a missing key, "malformed" for a value fromisoformat rejects. *)

first_run_stale_days == 30

TimeOf(day) == [kind |-> "time", day |-> day]
AbsentTime == [kind |-> "absent", day |-> 0]
MalformedTime == [kind |-> "malformed", day |-> 0]

(* The trade records that reach trade_history.json on a given day: with a   *)
(* close_time, with an entry_time only, with neither (as the records of     *)
(* test_graceful_shutdown), with a close_time that is no ISO string.        *)
(* recorded_on is history: the day the record was saved.                    *)
TradesRecordedOn(day) ==
    { [close_time |-> TimeOf(day), entry_time |-> TimeOf(day), recorded_on |-> day],
      [close_time |-> AbsentTime, entry_time |-> TimeOf(day), recorded_on |-> day],
      [close_time |-> AbsentTime, entry_time |-> AbsentTime, recorded_on |-> day],
      [close_time |-> MalformedTime, entry_time |-> TimeOf(day), recorded_on |-> day] }

(* trade_history.json: "missing", "corrupt" (json.load raises), "object" (a  *)
(* JSON document that is not a list) or "list" with its trades              *)
HistoryFile(kind, trades) == [kind |-> kind, trades |-> trades]

DamagedKinds == {"missing", "corrupt", "object"}

(* last_trade.get('close_time', last_trade.get('entry_time', utcnow)) *)
last_trade_time(last_trade, now) ==
    IF last_trade.close_time.kind # "absent" THEN last_trade.close_time
    ELSE IF last_trade.entry_time.kind # "absent" THEN last_trade.entry_time
    ELSE TimeOf(now)

(* if days_since >= 30 *)
is_stale_after_31(days_since) == days_since > first_run_stale_days

is_stale(days_since) == days_since >= first_run_stale_days

(* check_first_run_status(): the bool it returns and its reason *)
check_first_run_status(marker, history, now) ==
    IF ~marker THEN [first_run |-> TRUE, reason |-> "Marker file missing"]
    ELSE IF history.kind = "missing"
         THEN [first_run |-> TRUE, reason |-> "No trade history found"]
    ELSE IF history.kind = "corrupt"
         THEN [first_run |-> TRUE, reason |-> "Error reading trade history"]
    ELSE IF history.kind = "object"
         THEN [first_run |-> TRUE, reason |-> "Error reading trade history"]
    ELSE IF history.trades = <<>>
         THEN [first_run |-> TRUE, reason |-> "Empty trade history"]
    ELSE LET time == last_trade_time(history.trades[Len(history.trades)], now)
         IN  IF time.kind = "malformed"
             THEN [first_run |-> TRUE, reason |-> "Error reading trade history"]
             ELSE IF is_stale(now - time.day)
                  THEN [first_run |-> TRUE, reason |-> "No trades in last 30 days"]
                  ELSE [first_run |-> FALSE, reason |-> "Trading history exists and recent"]

(* No check_first_run_status result stands for the present state *)
NoStatus == [called |-> FALSE, first_run |-> FALSE, reason |-> ""]

(* An empty data directory *)
InitFirstRun ==
    /\ marker_file = FALSE
    /\ history_file = HistoryFile("missing", <<>>)
    /\ utcnow = 0
    /\ clock_steps = 0
    /\ safety_order = "none"
    /\ first_run_status = NoStatus
    /\ probe_completed = FALSE
    /\ history_damaged = FALSE

CheckFirstRunStatus ==
    /\ LET status == check_first_run_status(marker_file, history_file, utcnow)
       IN  first_run_status' = [called |-> TRUE, first_run |-> status.first_run,
                                reason |-> status.reason]
    /\ UNCHANGED <<marker_file, history_file, utcnow, clock_steps, safety_order,
                   probe_completed, history_damaged>>
    /\ UNCHANGED notFirstRun

(* execute_safety_trade: what executor.submit_order_with_retry returned *)
ExecuteSafetyTrade ==
    /\ \E order \in {"order", "None"} : safety_order' = order
    /\ first_run_status' = NoStatus
    /\ UNCHANGED <<marker_file, history_file, utcnow, clock_steps, probe_completed,
                   history_damaged>>
    /\ UNCHANGED notFirstRun

(* create_marker_file() *)
CreateMarkerFile ==
    /\ marker_file' = TRUE
    /\ probe_completed' = (probe_completed \/ safety_order = "order")
    /\ first_run_status' = NoStatus
    /\ UNCHANGED <<history_file, utcnow, clock_steps, safety_order, history_damaged>>
    /\ UNCHANGED notFirstRun

(* StateManager.save_trade_history(trade), run to its end: the list it  *)
(* loads, [] for a file it cannot read, with the trade appended          *)
RecordTrade ==
    /\ Len(history_file.trades) < MaxHistory
    /\ \E trade \in TradesRecordedOn(utcnow) :
          history_file' = HistoryFile("list",
                              IF history_file.kind = "list"
                              THEN Append(history_file.trades, trade) ELSE <<trade>>)
    /\ first_run_status' = NoStatus
    /\ UNCHANGED <<marker_file, utcnow, clock_steps, safety_order, probe_completed,
                   history_damaged>>
    /\ UNCHANGED notFirstRun

(* Time passes: a day, or a month less a day *)
DaysPass ==
    /\ clock_steps < MaxClockSteps
    /\ \E days \in {1, first_run_stale_days - 1} : utcnow' = utcnow + days
    /\ clock_steps' = clock_steps + 1
    /\ first_run_status' = NoStatus
    /\ UNCHANGED <<marker_file, history_file, safety_order, probe_completed,
                   history_damaged>>
    /\ UNCHANGED notFirstRun

(* trade_history.json is removed, truncated or overwritten from outside *)
DamageHistory ==
    /\ ~history_damaged
    /\ \E kind \in DamagedKinds : history_file' = HistoryFile(kind, <<>>)
    /\ history_damaged' = TRUE
    /\ first_run_status' = NoStatus
    /\ UNCHANGED <<marker_file, utcnow, clock_steps, safety_order, probe_completed>>
    /\ UNCHANGED notFirstRun

NextFirstRun ==
    \/ CheckFirstRunStatus
    \/ ExecuteSafetyTrade
    \/ CreateMarkerFile
    \/ RecordTrade
    \/ DaysPass
    \/ DamageHistory

-----------------------------------------------------------------------------
(* GracefulShutdown.cleanup against an exchange whose calls take time and    *)
(* may fail.  Times are in seconds.                                          *)

cancel_timeout == 30

(* The orders that may be open on the exchange when cleanup is called *)
OrderIds == {"order1", "order2"}

(* How long an awaited exchange call takes *)
CallSeconds == {0, 15, 35}

(* An optional argument of cleanup: None, or a list *)
NoneArg == [given |-> FALSE, list |-> <<>>]
ListArg(list) == [given |-> TRUE, list |-> list]

(* Python truth of an Optional[List]: `if positions:` *)
truthy(arg) == arg.given /\ arg.list # <<>>

(* The trades lists given to cleanup *)
TradeLists == { <<>> } \cup { <<trade>> : trade \in TradeValues }

RECURSIVE SetToSeq(_)
SetToSeq(set) ==
    IF set = {} THEN <<>>
    ELSE LET x == CHOOSE y \in set : TRUE IN <<x>> \o SetToSeq(set \ {x})

(* asyncio.wait_for(..., timeout=30) around a call that takes `seconds`,    *)
(* `elapsed` seconds into the wait: the call completes, or the wait times   *)
(* out; at the very bound either happens                                    *)
wait_for_unbounded(elapsed, seconds) == {"completes"}

wait_for(elapsed, seconds) ==
    IF elapsed + seconds < cancel_timeout THEN {"completes"}
    ELSE IF elapsed + seconds = cancel_timeout THEN {"completes", "timeout"}
    ELSE {"timeout"}

InitShutdown ==
    /\ exchange_orders \in SUBSET OrderIds
    /\ positions_doc \in {json_dump(list) : list \in PositionLists}
    /\ trades_doc = <<>>
    /\ pc_cleanup = "idle"
    /\ cleanup_args = [positions |-> NoneArg, trades |-> NoneArg]
    /\ sweep_orders = <<>>
    /\ sweep_seconds = 0
    /\ exit_code = -1
    /\ close_called = FALSE
    /\ pending_at_start = {}
    /\ docs_at_start = [positions |-> <<>>, trades |-> <<>>]
    /\ timed_out = FALSE
    /\ positions_at_close = <<>>
    /\ close_seconds = 0

ParkShutdown ==
    /\ exchange_orders = {}
    /\ positions_doc = <<>>
    /\ trades_doc = <<>>
    /\ pc_cleanup = "idle"
    /\ cleanup_args = [positions |-> NoneArg, trades |-> NoneArg]
    /\ sweep_orders = <<>>
    /\ sweep_seconds = 0
    /\ exit_code = -1
    /\ close_called = FALSE
    /\ pending_at_start = {}
    /\ docs_at_start = [positions |-> <<>>, trades |-> <<>>]
    /\ timed_out = FALSE
    /\ positions_at_close = <<>>
    /\ close_seconds = 0

(* cleanup(positions, trades) is called: wait_for starts the sweep *)
StartCleanup ==
    /\ pc_cleanup = "idle"
    /\ \E positions \in {NoneArg} \cup {ListArg(list) : list \in PositionLists},
          trades \in {NoneArg} \cup {ListArg(list) : list \in TradeLists} :
          cleanup_args' = [positions |-> positions, trades |-> trades]
    /\ pending_at_start' = exchange_orders
    /\ docs_at_start' = [positions |-> positions_doc, trades |-> trades_doc]
    /\ pc_cleanup' = "fetch"
    /\ UNCHANGED <<exchange_orders, positions_doc, trades_doc, sweep_orders, sweep_seconds,
                   exit_code, close_called, timed_out, positions_at_close, close_seconds>>
    /\ UNCHANGED notShutdown

(* except asyncio.TimeoutError: return 1 *)
TimeoutReturns ==
    /\ sweep_seconds' = cancel_timeout
    /\ timed_out' = TRUE
    /\ exit_code' = 1
    /\ pc_cleanup' = "returned"

(* cancel_pending_orders: await self.exchange.fetch_open_orders() *)
FetchOpenOrders ==
    /\ pc_cleanup = "fetch"
    /\ \E seconds \in CallSeconds, raises \in BOOLEAN :
       \E outcome \in wait_for(sweep_seconds, seconds) :
          IF outcome = "timeout"
          THEN /\ TimeoutReturns
               /\ UNCHANGED sweep_orders
          ELSE /\ sweep_seconds' = sweep_seconds + seconds
               /\ sweep_orders' = IF raises THEN <<>> ELSE SetToSeq(exchange_orders)
               /\ pc_cleanup' = "cancel"
               /\ UNCHANGED <<timed_out, exit_code>>
    /\ UNCHANGED <<exchange_orders, positions_doc, trades_doc, cleanup_args, close_called,
                   pending_at_start, docs_at_start, positions_at_close, close_seconds>>
    /\ UNCHANGED notShutdown

(* for order in open_orders: await self.exchange.cancel_order(...); a call   *)
(* that raises is logged and the loop goes on; a call cut off by the         *)
(* timeout may or may not have reached the exchange                          *)
CancelOrder ==
    /\ pc_cleanup = "cancel"
    /\ sweep_orders # <<>>
    /\ \E seconds \in CallSeconds, raises \in BOOLEAN, reached \in BOOLEAN :
       \E outcome \in wait_for(sweep_seconds, seconds) :
          IF outcome = "timeout"
          THEN /\ TimeoutReturns
               /\ exchange_orders' = IF reached THEN exchange_orders \ {Head(sweep_orders)}
                                     ELSE exchange_orders
               /\ UNCHANGED sweep_orders
          ELSE /\ sweep_seconds' = sweep_seconds + seconds
               /\ exchange_orders' = IF raises THEN exchange_orders
                                     ELSE exchange_orders \ {Head(sweep_orders)}
               /\ sweep_orders' = Tail(sweep_orders)
               /\ UNCHANGED <<timed_out, exit_code, pc_cleanup>>
    /\ UNCHANGED <<positions_doc, trades_doc, cleanup_args, close_called, pending_at_start,
                   docs_at_start, positions_at_close, close_seconds>>
    /\ UNCHANGED notShutdown

(* The sweep is over and wait_for returns *)
SweepEnds ==
    /\ pc_cleanup = "cancel"
    /\ sweep_orders = <<>>
    /\ pc_cleanup' = "save"
    /\ UNCHANGED <<exchange_orders, positions_doc, trades_doc, cleanup_args, sweep_orders,
                   sweep_seconds, exit_code, close_called, pending_at_start, docs_at_start,
                   timed_out, positions_at_close, close_seconds>>
    /\ UNCHANGED notShutdown

(* if positions: save_open_positions(positions)                               *)
(* if trades: for trade in trades: save_trade_history(trade)                  *)
SaveSnapshots ==
    /\ pc_cleanup = "save"
    /\ positions_doc' = IF truthy(cleanup_args.positions)
                        THEN json_dump(cleanup_args.positions.list) ELSE positions_doc
    /\ trades_doc' = IF truthy(cleanup_args.trades)
                     THEN trades_doc \o json_dump(cleanup_args.trades.list) ELSE trades_doc
    /\ pc_cleanup' = "close"
    /\ UNCHANGED <<exchange_orders, cleanup_args, sweep_orders, sweep_seconds, exit_code,
                   close_called, pending_at_start, docs_at_start, timed_out,
                   positions_at_close, close_seconds>>
    /\ UNCHANGED notShutdown

(* await self.exchange.close(), whatever it takes and whether or not it      *)
(* raises; return 0                                                          *)
ExchangeClose ==
    /\ pc_cleanup = "close"
    /\ \E seconds \in CallSeconds : close_seconds' = seconds
    /\ close_called' = TRUE
    /\ positions_at_close' = positions_doc
    /\ exit_code' = 0
    /\ pc_cleanup' = "returned"
    /\ UNCHANGED <<exchange_orders, positions_doc, trades_doc, cleanup_args, sweep_orders,
                   sweep_seconds, pending_at_start, docs_at_start, timed_out>>
    /\ UNCHANGED notShutdown

NextShutdown ==
    \/ StartCleanup
    \/ FetchOpenOrders
    \/ CancelOrder
    \/ SweepEnds
    \/ SaveSnapshots
    \/ ExchangeClose

-----------------------------------------------------------------------------
(* Readers of the durable JSON files: StateManager.load_*, RiskManager's     *)
(* _load_daily_pnl and the DashboardStateReader.  A JSON value is kept by    *)
(* what the readers look at: its type, the elements of an array, and for an  *)
(* object or an element the value under a key the reader converts with       *)
(* float() ('balance', 'entry_price', 'cumulative_pnl') and its 'date'.      *)

FieldValues == {"absent", "number", "text", "null"}
DateValues == {"absent", "today", "other"}

JsonItems ==
    {[type |-> "number", field |-> "absent"]}
        \cup [type : {"object"}, field : FieldValues]

JsonArrays == UNION {[1..n -> JsonItems] : n \in 0..MaxItems}

JsonValues ==
    [type : {"invalid", "null", "number"}, field : {"absent"}, date : {"absent"},
     items : {<<>>}]
        \cup [type : {"object"}, field : FieldValues, date : DateValues, items : {<<>>}]
        \cup [type : {"array"}, field : {"absent"}, date : {"absent"}, items : JsonArrays]

(* A path of the data directory: nothing there, something that cannot be     *)
(* opened for reading, or a file with some content                           *)
DurableFiles ==
    [exists : {FALSE}, opens : {FALSE}, json : {[type |-> "invalid", field |-> "absent",
                                                 date |-> "absent", items |-> <<>>]}]
        \cup [exists : {TRUE}, opens : {FALSE},
              json : {[type |-> "invalid", field |-> "absent", date |-> "absent",
                       items |-> <<>>]}]
        \cup [exists : {TRUE}, opens : {TRUE}, json : JsonValues]

(* with open(...) as f: json.load(f) returns a value *)
json_loads(f) == f.opens /\ f.json.type # "invalid"

(* bool(data) *)
truthy_json(v) ==
    CASE v.type = "null" -> FALSE
      [] v.type = "number" -> TRUE
      [] v.type = "object" -> v.field # "absent" \/ v.date # "absent"
      [] v.type = "array" -> Len(v.items) > 0
      [] OTHER -> FALSE

(* float(data.get(key, 0.0)): the exception it raises, "" for none *)
float_of(value) ==
    CASE value = "text" -> "ValueError"
      [] value = "null" -> "TypeError"
      [] OTHER -> ""

ReaderResult(reader, f, raised, returns) ==
    [reader |-> reader, file |-> f, raised |-> raised, returns |-> returns]

(* StateManager.load_trade_history and load_open_positions: [] for a missing *)
(* file and for any exception of open or json.load, else whatever was loaded *)
state_manager_load(f) ==
    IF ~f.exists THEN "default"
    ELSE IF ~json_loads(f) THEN "default"
    ELSE IF f.json.type = "array" /\ f.json.items = <<>> THEN "default"
    ELSE "document"

(* _reset_daily_pnl and _save_daily_pnl: the day's empty document, when it   *)
(* can be written                                                            *)
reset_daily_pnl_written(f) ==
    IF f.exists /\ ~f.opens THEN f
    ELSE [exists |-> TRUE, opens |-> TRUE,
          json |-> [type |-> "object", field |-> "number", date |-> "today",
                    items |-> <<>>]]

(* RiskManager._load_daily_pnl: every exception is caught *)
load_daily_pnl(f) ==
    LET loaded ==
            /\ f.exists
            /\ json_loads(f)
            /\ f.json.type = "object"
            /\ f.json.date = "today"
            /\ float_of(f.json.field) = ""
    IN  [returns |-> IF loaded /\ f.json.field = "number" THEN "parsed" ELSE "default",
         file |-> IF loaded THEN f ELSE reset_daily_pnl_written(f)]

(* DashboardStateReader.read_json_safe: None or the loaded value *)
read_json_safe(f) ==
    IF ~f.exists THEN "default"
    ELSE IF ~json_loads(f) THEN "default"
    ELSE IF f.json.type = "null" THEN "default"
    ELSE "document"

(* DashboardStateReader.read_account_metrics *)
read_account_metrics(f) ==
    IF ~f.exists THEN [raised |-> "", returns |-> "default"]
    ELSE IF read_json_safe(f) = "default" \/ ~truthy_json(f.json)
         THEN [raised |-> "", returns |-> "default"]
    ELSE IF f.json.type # "object"
         THEN [raised |-> "AttributeError", returns |-> "nothing"]
    ELSE IF float_of(f.json.field) # ""
         THEN [raised |-> float_of(f.json.field), returns |-> "nothing"]
    ELSE [raised |-> "", returns |-> "parsed"]

(* The loop of read_open_positions: ValueError and KeyError skip the         *)
(* position, any other exception leaves the loop and the method              *)
RECURSIVE parse_positions(_)
parse_positions(items) ==
    IF items = <<>> THEN [raised |-> "", kept |-> 0]
    ELSE LET pos == Head(items)
             rest == parse_positions(Tail(items))
         IN  IF pos.type # "object" THEN [raised |-> "AttributeError", kept |-> 0]
             ELSE IF float_of(pos.field) = "TypeError"
                  THEN [raised |-> "TypeError", kept |-> 0]
             ELSE IF float_of(pos.field) = "ValueError" THEN rest
             ELSE IF rest.raised # "" THEN rest
             ELSE [raised |-> "", kept |-> rest.kept + 1]

(* DashboardStateReader.read_open_positions *)
read_open_positions(f) ==
    IF read_json_safe(f) = "default" \/ ~truthy_json(f.json) \/ f.json.type # "array"
    THEN [raised |-> "", returns |-> "default"]
    ELSE LET parsed == parse_positions(f.json.items)
         IN  IF parsed.raised # "" THEN [raised |-> parsed.raised, returns |-> "nothing"]
             ELSE [raised |-> "",
                   returns |-> IF parsed.kept = 0 THEN "default" ELSE "parsed"]

NoRead == [exists |-> FALSE, opens |-> FALSE,
           json |-> [type |-> "invalid", field |-> "absent", date |-> "absent",
                     items |-> <<>>]]

ParkReaders ==
    /\ durable_file = NoRead
    /\ reader_result = ReaderResult("none", NoRead, "", "nothing")

InitReaders ==
    /\ durable_file \in DurableFiles
    /\ reader_result = ReaderResult("none", NoRead, "", "nothing")

LoadTradeHistory ==
    /\ reader_result' = ReaderResult("load_trade_history", durable_file, "",
                                     state_manager_load(durable_file))
    /\ UNCHANGED durable_file
    /\ UNCHANGED notReaders

LoadOpenPositions ==
    /\ reader_result' = ReaderResult("load_open_positions", durable_file, "",
                                     state_manager_load(durable_file))
    /\ UNCHANGED durable_file
    /\ UNCHANGED notReaders

LoadDailyPnl ==
    /\ reader_result' = ReaderResult("_load_daily_pnl", durable_file, "",
                                     load_daily_pnl(durable_file).returns)
    /\ durable_file' = load_daily_pnl(durable_file).file
    /\ UNCHANGED notReaders

ReadJsonSafe ==
    /\ reader_result' = ReaderResult("read_json_safe", durable_file, "",
                                     read_json_safe(durable_file))
    /\ UNCHANGED durable_file
    /\ UNCHANGED notReaders

ReadAccountMetrics ==
    /\ reader_result' = ReaderResult("read_account_metrics", durable_file,
                                     read_account_metrics(durable_file).raised,
                                     read_account_metrics(durable_file).returns)
    /\ UNCHANGED durable_file
    /\ UNCHANGED notReaders

ReadOpenPositions ==
    /\ reader_result' = ReaderResult("read_open_positions", durable_file,
                                     read_open_positions(durable_file).raised,
                                     read_open_positions(durable_file).returns)
    /\ UNCHANGED durable_file
    /\ UNCHANGED notReaders

NextReaders ==
    \/ LoadTradeHistory
    \/ LoadOpenPositions
    \/ LoadDailyPnl
    \/ ReadJsonSafe
    \/ ReadAccountMetrics
    \/ ReadOpenPositions

-----------------------------------------------------------------------------
(* Restart recovery of the daily PnL.  track_daily_pnl adds the PnL to the   *)
(* in-memory accumulation as it is and writes round(cumulative + pnl, 8) to  *)
(* the file.  An amount is whole + nano / 10^9 with 0 <= nano < 10^9, so the *)
(* ninth decimal, which the rounding drops, is kept exactly.                 *)

NanoPerUnit == 1000000000
pnl_decimals == 8

Amount(whole, nano) == [whole |-> whole, nano |-> nano]

(* a + b *)
amount_add(a, b) ==
    LET nano == a.nano + b.nano
    IN  IF nano >= NanoPerUnit THEN Amount(a.whole + b.whole + 1, nano - NanoPerUnit)
        ELSE Amount(a.whole + b.whole, nano)

(* round(x, 8): to the nearest multiple of 10^-8; no amount of the model is  *)
(* half-way between two of them                                              *)
round_8(x) ==
    LET step == Power(10, 9 - pnl_decimals)
        down == (x.nano \div step) * step
    IN  IF 2 * (x.nano - down) < step THEN Amount(x.whole, down)
        ELSE IF down + step = NanoPerUnit THEN Amount(x.whole + 1, 0)
        ELSE Amount(x.whole, down + step)

(* check_daily_loss_limit on an exact amount: accumulation <= -max_daily_loss *)
check_daily_loss_limit_exact(acc) ==
    LET max_daily_loss == (account_balance * max_daily_loss_pct) \div 100
    IN  IF acc.whole < -max_daily_loss \/ (acc.whole = -max_daily_loss /\ acc.nano = 0)
        THEN "blocked" ELSE "allowed"

(* The realised PnL of a trade: -200, -250.000000004, -299.999999996,        *)
(* +0.000000006                                                              *)
ExactPnlValues ==
    {Amount(-200, 0), Amount(-251, 999999996), Amount(-300, 4), Amount(0, 6)}

NoRecovery ==
    [done |-> FALSE, old |-> Amount(0, 0), new |-> Amount(0, 0),
     old_verdict |-> "none", new_verdict |-> "none"]

(* RiskManager.__init__ on a date with nothing traded yet *)
InitRecovery ==
    /\ ledger = [memory |-> Amount(0, 0), file |-> Amount(0, 0), calls |-> 0]
    /\ recovered = NoRecovery

ParkRecovery == InitRecovery

(* track_daily_pnl(pnl), the file readable and of today's date *)
TrackDailyPnlExact ==
    \E pnl \in ExactPnlValues :
        /\ ledger.calls < MaxTracked
        /\ ledger' = [memory |-> amount_add(ledger.memory, pnl),
                      file |-> round_8(amount_add(ledger.file, pnl)),
                      calls |-> ledger.calls + 1]
        /\ recovered' = NoRecovery
        /\ UNCHANGED notRecovery

(* The process restarts on the same date: _load_daily_pnl reads the file,    *)
(* and both instances are asked check_daily_loss_limit                       *)
RestartSameDate ==
    /\ ledger.calls > 0
    /\ ~recovered.done
    /\ recovered' = [done |-> TRUE, old |-> ledger.memory, new |-> ledger.file,
                     old_verdict |-> check_daily_loss_limit_exact(ledger.memory),
                     new_verdict |-> check_daily_loss_limit_exact(ledger.file)]
    /\ ledger' = [ledger EXCEPT !.memory = ledger.file]
    /\ UNCHANGED notRecovery

NextRecovery ==
    \/ TrackDailyPnlExact
    \/ RestartSameDate

-----------------------------------------------------------------------------
(* TelegramNotifier._send_message(text, max_retries) *)

(* delays = [0.5, 2.0, 5.0], in tenths of a second *)
delays == <<5, 20, 50>>

(* e.retry_after of a RetryAfter error, in tenths of a second *)
retry_after == 10

(* What awaiting bot.send_message under wait_for gives: the message is sent, *)
(* or asyncio.TimeoutError, RetryAfter, BadRequest, another TelegramError,   *)
(* or any other Exception                                                    *)
SendOutcomes == {"sent", "TimeoutError", "RetryAfter", "BadRequest", "TelegramError",
                 "Exception"}

(* The except clauses of one attempt: what the call does next and the sleep  *)
(* it takes, -1 for none; k is the loop variable attempt and limit is        *)
(* max_retries.  delays[attempt] is evaluated inside the handler:            *)
(* an index past the list raises IndexError out of the call.                 *)
after_attempt(outcome, k, limit) ==
    CASE outcome = "sent" -> [next |-> "True", sleep |-> -1]
      [] outcome \in {"TimeoutError", "TelegramError"} ->
            IF k < limit - 1
            THEN IF k + 1 \in DOMAIN delays
                 THEN [next |-> "loop", sleep |-> delays[k + 1]]
                 ELSE [next |-> "IndexError", sleep |-> -1]
            ELSE [next |-> "loop", sleep |-> -1]
      [] outcome = "RetryAfter" -> [next |-> "loop", sleep |-> retry_after]
      [] OTHER -> [next |-> "False", sleep |-> -1]

ParkNotify ==
    /\ notifier = [enabled |-> FALSE, bot |-> FALSE, max_retries |-> 1]
    /\ pc_send = "start"
    /\ send_attempt = 0
    /\ send_log = <<>>
    /\ send_sleeps = <<>>
    /\ send_result = "pending"

(* A call of _send_message is entered *)
InitNotify ==
    /\ notifier \in [enabled : BOOLEAN, bot : BOOLEAN, max_retries : 1..MaxSendRetries]
    /\ pc_send = "start"
    /\ send_attempt = 0
    /\ send_log = <<>>
    /\ send_sleeps = <<>>
    /\ send_result = "pending"

(* if not self.enabled or not self.bot: return False; else the loop starts *)
EnterSendMessage ==
    /\ pc_send = "start"
    /\ IF ~notifier.enabled \/ ~notifier.bot
       THEN pc_send' = "returned" /\ send_result' = "False"
       ELSE pc_send' = "attempt" /\ UNCHANGED send_result
    /\ UNCHANGED <<notifier, send_attempt, send_log, send_sleeps>>
    /\ UNCHANGED notNotify

(* One pass of the loop: the send, its except clause, the sleep, and the     *)
(* loop test; the fall out of the loop returns False                         *)
SendAttempt ==
    /\ pc_send = "attempt"
    /\ \E outcome \in SendOutcomes :
          LET handled == after_attempt(outcome, send_attempt, notifier.max_retries)
          IN  /\ send_log' = Append(send_log, outcome)
              /\ send_sleeps' = IF handled.sleep >= 0 THEN Append(send_sleeps, handled.sleep)
                                ELSE send_sleeps
              /\ CASE handled.next = "loop" /\ send_attempt + 1 < notifier.max_retries ->
                          /\ send_attempt' = send_attempt + 1
                          /\ UNCHANGED <<pc_send, send_result>>
                   [] handled.next = "loop" ->
                          /\ pc_send' = "returned"
                          /\ send_result' = "False"
                          /\ UNCHANGED send_attempt
                   [] handled.next = "IndexError" ->
                          /\ pc_send' = "raised"
                          /\ send_result' = "IndexError"
                          /\ UNCHANGED send_attempt
                   [] OTHER ->
                          /\ pc_send' = "returned"
                          /\ send_result' = handled.next
                          /\ UNCHANGED send_attempt
    /\ UNCHANGED notifier
    /\ UNCHANGED notNotify

NextNotify ==
    \/ EnterSendMessage
    \/ SendAttempt

-----------------------------------------------------------------------------
(* DataStreamer: the candle cache of one (symbol, timeframe) pair, filled by *)
(* fetch_historical_candles and by the polling rounds of                     *)
(* stream_real_time_candles.  A candle is its timestamp and whether          *)
(* validate_ohlc_data accepts it.                                            *)

(* limit of the historical fetch and of a polling round *)
historical_limit == 100
polling_limit == 5

(* connector.fetch_ohlcv(symbol, timeframe, limit): the latest candles *)
fetch_ohlcv(limit) ==
    LET n == Len(exchange_candles)
    IN  IF n <= limit THEN exchange_candles
        ELSE SubSeq(exchange_candles, n - limit + 1, n)

(* deque(maxlen=cache_size).append: the oldest element makes room *)
deque_append(cache, candle) ==
    IF Len(cache) >= cache_size THEN Append(Tail(cache), candle)
    ELSE Append(cache, candle)

(* for candle in candles: skip the invalid ones, append the others *)
RECURSIVE append_candles(_, _)
append_candles(cache, candles) ==
    IF candles = <<>> THEN cache
    ELSE IF ~Head(candles).valid THEN append_candles(cache, Tail(candles))
    ELSE append_candles(deque_append(cache, Head(candles).timestamp), Tail(candles))

(* DataStreamer.__init__ and _initialize_cache; the exchange has one candle *)
InitStream ==
    /\ exchange_candles \in {<<[timestamp |-> 1, valid |-> v]>> : v \in BOOLEAN}
    /\ candles_cache = <<>>
    /\ reconnect_delay = 1

ParkStream ==
    /\ exchange_candles = <<>>
    /\ candles_cache = <<>>
    /\ reconnect_delay = 1

(* A candle closes on the exchange *)
CandleCloses ==
    /\ Len(exchange_candles) < MaxCandles
    /\ \E v \in BOOLEAN :
          exchange_candles' = Append(exchange_candles,
                                     [timestamp |-> Len(exchange_candles) + 1, valid |-> v])
    /\ UNCHANGED <<candles_cache, reconnect_delay>>
    /\ UNCHANGED notStream

(* fetch_historical_candles(symbol, timeframe): the fetch succeeds or raises *)
FetchHistoricalCandles ==
    /\ \E fetched \in BOOLEAN :
          candles_cache' = IF fetched
                           THEN append_candles(candles_cache, fetch_ohlcv(historical_limit))
                           ELSE candles_cache
    /\ UNCHANGED <<exchange_candles, reconnect_delay>>
    /\ UNCHANGED notStream

(* One round of the while loop of stream_real_time_candles *)
PollingRound ==
    /\ \E fetched \in BOOLEAN :
          IF fetched
          THEN /\ candles_cache' = append_candles(candles_cache, fetch_ohlcv(polling_limit))
               /\ reconnect_delay' = 1
          ELSE /\ reconnect_delay < MaxReconnectDelay
               /\ reconnect_delay' = reconnect_delay * 2
               /\ UNCHANGED candles_cache
    /\ UNCHANGED exchange_candles
    /\ UNCHANGED notStream

NextStream ==
    \/ CandleCloses
    \/ FetchHistoricalCandles
    \/ PollingRound

-----------------------------------------------------------------------------
(* SupportResistanceDetector.get_zones / update_zones.  The zones are kept   *)
(* by the rebuild that produced them and by whether clustering found any.    *)

(* if self.candle_count >= 100 *)
rebuild_every == 100

(* len(candles) of a get_zones call: no candles, a short window, and the     *)
(* 100-candle window process_signal passes on every cycle                    *)
WindowLengths == {0, 40, 100}

(* How many candles arrive at once between two calls *)
ArrivalSizes == {1, 60}

NoZones == [built |-> 0, empty |-> TRUE]

(* if self.candle_count >= 100 or not self.zones, on the count already       *)
(* increased by len(candles)                                                 *)
rebuilds_zones(count, zones) == count >= rebuild_every \/ zones.empty

(* SupportResistanceDetector.__init__ *)
InitZones ==
    /\ sr_detector = [candle_count |-> 0, zones |-> NoZones]
    /\ new_candles = 0
    /\ rebuilds = 0
    /\ zones_returned = NoZones

(* New candles close on the exchange *)
CandlesArrive ==
    /\ \E n \in ArrivalSizes :
          /\ new_candles + n <= MaxNewCandles
          /\ new_candles' = new_candles + n
    /\ UNCHANGED <<sr_detector, rebuilds, zones_returned>>
    /\ UNCHANGED notZones

(* get_zones(candles): update_zones when candles is non-empty; detect_swings *)
(* and cluster_zones find zones in the window or find none                   *)
GetZones ==
    /\ \E window \in WindowLengths, found \in BOOLEAN :
          LET count == sr_detector.candle_count + window
          IN  IF window > 0 /\ rebuilds_zones(count, sr_detector.zones)
              THEN /\ rebuilds < MaxRebuilds
                   /\ rebuilds' = rebuilds + 1
                   /\ sr_detector' = [candle_count |-> 0,
                                      zones |-> [built |-> rebuilds + 1, empty |-> ~found]]
                   /\ zones_returned' = [built |-> rebuilds + 1, empty |-> ~found]
                   /\ new_candles' = 0
              ELSE /\ sr_detector' = [sr_detector EXCEPT !.candle_count =
                                         IF window > 0 THEN count ELSE @]
                   /\ zones_returned' = sr_detector.zones
                   /\ UNCHANGED <<rebuilds, new_candles>>
    /\ UNCHANGED notZones

NextZones ==
    \/ CandlesArrive
    \/ GetZones

-----------------------------------------------------------------------------
(* HydraXBot.run_event_loop and shutdown, with the SIGINT handler of         *)
(* utils.setup_graceful_shutdown installed or not.  Without it SIGINT        *)
(* interrupts the loop at its current await, and the finally clause runs.    *)

ParkLoop ==
    /\ handler_installed = FALSE
    /\ shutdown_event = FALSE
    /\ pc_loop = "cycle"
    /\ cycles = 0
    /\ sigints = 0

(* run_event_loop is entered *)
InitLoop ==
    /\ handler_installed \in BOOLEAN
    /\ shutdown_event = FALSE
    /\ pc_loop = "cycle"
    /\ cycles = 0
    /\ sigints = 0

(* for symbol in self.symbols: await self.process_signal(symbol) *)
ProcessSignals ==
    /\ pc_loop = "cycle"
    /\ cycles < MaxCycles
    /\ cycles' = cycles + 1
    /\ pc_loop' = "sleep"
    /\ UNCHANGED <<handler_installed, shutdown_event, sigints>>
    /\ UNCHANGED notLoop

(* await asyncio.sleep(signal_interval) ends; while True goes round *)
SleepEnds ==
    /\ pc_loop = "sleep"
    /\ pc_loop' = "cycle"
    /\ UNCHANGED <<handler_installed, shutdown_event, cycles, sigints>>
    /\ UNCHANGED notLoop

(* SIGINT: signal_handler sets the event and returns; with the default       *)
(* handler the loop is interrupted and goes to its finally clause            *)
Sigint ==
    /\ sigints < MaxSigints
    /\ pc_loop \in {"cycle", "sleep"}
    /\ sigints' = sigints + 1
    /\ IF handler_installed
       THEN shutdown_event' = TRUE /\ UNCHANGED pc_loop
       ELSE pc_loop' = "shutdown" /\ UNCHANGED shutdown_event
    /\ UNCHANGED <<handler_installed, cycles>>
    /\ UNCHANGED notLoop

(* finally: await self.shutdown() *)
Shutdown ==
    /\ pc_loop = "shutdown"
    /\ pc_loop' = "done"
    /\ UNCHANGED <<handler_installed, shutdown_event, cycles, sigints>>
    /\ UNCHANGED notLoop

NextLoop ==
    \/ ProcessSignals
    \/ SleepEnds
    \/ Sigint
    \/ Shutdown

-----------------------------------------------------------------------------
(* SignalGenerator.generate_signal and the engines it calls.  Prices are      *)
(* whole ticks; every score, ratio and derived price is the exact fraction    *)
(* [n, d] of the expression the code evaluates.                               *)

RECURSIVE GCD(_, _)
GCD(a, b) == IF b = 0 THEN a ELSE GCD(b, a % b)

(* The fraction num / den in lowest terms, den > 0 *)
Fraction(num, den) ==
    LET g == GCD(IF num < 0 THEN -num ELSE num, den)
    IN  [n |-> num \div g, d |-> den \div g]

Whole(k) == [n |-> k, d |-> 1]

(* The arithmetic on fractions given as values.  Common factors are divided  *)
(* out before the products are taken, so that they stay small.               *)
add_values(x, y) ==
    LET g == GCD(x.d, y.d)
    IN  Fraction(x.n * (y.d \div g) + y.n * (x.d \div g), (x.d \div g) * y.d)
mul_values(x, y) ==
    LET left == Fraction(x.n, y.d)
        right == Fraction(y.n, x.d)
    IN  Fraction(left.n * right.n, left.d * right.d)
lt_values(x, y) ==
    LET g == GCD(x.d, y.d)
    IN  x.n * (y.d \div g) < y.n * (x.d \div g)
negated(x) == [n |-> -x.n, d |-> x.d]
inverted(y) == [n |-> y.d, d |-> y.n]

(* The operators the engines use: each evaluates its operands once *)
frac_add(x, y) == CHOOSE r \in {add_values(p[1], p[2]) : p \in {<<x, y>>}} : TRUE
frac_sub(x, y) == CHOOSE r \in {add_values(p[1], negated(p[2])) : p \in {<<x, y>>}} : TRUE
frac_mul(x, y) == CHOOSE r \in {mul_values(p[1], p[2]) : p \in {<<x, y>>}} : TRUE
(* x / y for y > 0 *)
frac_div(x, y) == CHOOSE r \in {mul_values(p[1], inverted(p[2])) : p \in {<<x, y>>}} : TRUE
frac_lt(x, y) == \E p \in {<<x, y>>} : lt_values(p[1], p[2])
frac_leq(x, y) == ~frac_lt(y, x)
frac_min(x, y) ==
    CHOOSE r \in {IF lt_values(p[2], p[1]) THEN p[2] ELSE p[1] : p \in {<<x, y>>}} : TRUE
frac_max(x, y) ==
    CHOOSE r \in {IF lt_values(p[1], p[2]) THEN p[2] ELSE p[1] : p \in {<<x, y>>}} : TRUE
frac_abs(x) == CHOOSE r \in {IF v.n < 0 THEN negated(v) ELSE v : v \in {x}} : TRUE

(* Python's None where the code returns a number or None *)
NoneNumber == [n |-> 0, d |-> 0]

Candle(o, h, l, c) == [open |-> o, high |-> h, low |-> l, close |-> c]

(* candles[-k:] *)
LastCandles(candles, k) ==
    IF Len(candles) <= k THEN candles
    ELSE SubSeq(candles, Len(candles) - k + 1, Len(candles))

(* tr = max(high - low, abs(high - close_prev), abs(low - close_prev)), with  *)
(* close_prev = candles[i-1]['close'] if i > 0 else candles[i]['close']       *)
true_range(candles, i) ==
    LET close_prev == IF i > 1 THEN candles[i - 1].close ELSE candles[i].close
        a == candles[i].high - candles[i].low
        b == Abs(candles[i].high - close_prev)
        c == Abs(candles[i].low - close_prev)
    IN  IF a >= b /\ a >= c THEN a ELSE IF b >= c THEN b ELSE c

RECURSIVE sum_true_range(_, _, _)
sum_true_range(candles, first, last) ==
    IF first > last THEN 0
    ELSE true_range(candles, last) + sum_true_range(candles, first, last - 1)

(* BreakoutEngine.calculate_atr: np.mean(tr_values[-period:]) *)
calculate_atr(candles, period) ==
    IF Len(candles) < period THEN NoneNumber
    ELSE Fraction(sum_true_range(candles, Len(candles) - period + 1, Len(candles)),
                  period)

compression_candles == 20
atr_threshold == Fraction(3, 2)
min_body_ratio == Fraction(3, 5)
max_wick_ratio == Fraction(1, 4)
spike_history == 50
spike_window == 20
atr_period == 14

(* BreakoutEngine.detect_compression: 'compressed' of its result *)
detect_compression(candles) ==
    LET values == Len(candles) - 1
    IN  /\ Len(candles) >= compression_candles
        /\ values >= compression_candles
        /\ \A i \in (values - compression_candles + 1) .. (values - 1) :
              true_range(candles, i) >= true_range(candles, i + 1)

(* BreakoutEngine.detect_atr_spike: 'spike' and 'ratio' of its result *)
detect_atr_spike(candles) ==
    IF Len(candles) < spike_history THEN [spike |-> FALSE, ratio |-> Whole(0)]
    ELSE LET current_atr == calculate_atr(LastCandles(candles, spike_window), atr_period)
             historical_atr == calculate_atr(candles, spike_history)
             ratio == IF historical_atr.n > 0 THEN frac_div(current_atr, historical_atr)
                      ELSE Whole(0)
         IN  [spike |-> frac_lt(atr_threshold, ratio), ratio |-> ratio]

(* BreakoutEngine.validate_body_wick *)
validate_body_wick(candle) ==
    LET full_range == candle.high - candle.low
        body_ratio == Fraction(Abs(candle.close - candle.open), full_range)
        up == candle.close > candle.open
        opposite_wick_ratio ==
            IF up THEN Fraction(candle.open - candle.low, full_range)
            ELSE Fraction(candle.high - candle.open, full_range)
    IN  IF full_range = 0
        THEN [valid |-> FALSE, body_ratio |-> Whole(0), direction |-> "none"]
        ELSE [valid |-> frac_leq(min_body_ratio, body_ratio)
                        /\ frac_leq(opposite_wick_ratio, max_wick_ratio),
              body_ratio |-> body_ratio,
              direction |-> IF up THEN "up" ELSE "down"]

breakout_strength_uncapped(ratio, body_ratio) ==
    frac_mul(frac_div(ratio, atr_threshold), body_ratio)

(* strength = min(1.0, (atr_spike['ratio'] / self.atr_threshold) * body_ratio) *)
breakout_strength(ratio, body_ratio) ==
    frac_min(Whole(1), frac_mul(frac_div(ratio, atr_threshold), body_ratio))

(* BreakoutEngine.generate_breakout_signal: 'signal' and 'strength' *)
generate_breakout_signal(candles) ==
    IF Len(candles) < 20 THEN [signal |-> "NONE", strength |-> Whole(0)]
    ELSE LET atr_spike == detect_atr_spike(candles)
             body_wick == validate_body_wick(candles[Len(candles)])
         IN  IF ~(detect_compression(candles) /\ atr_spike.spike /\ body_wick.valid)
             THEN [signal |-> "NONE", strength |-> Whole(0)]
             ELSE [signal |-> IF body_wick.direction = "up" THEN "LONG" ELSE "SHORT",
                   strength |-> breakout_strength(atr_spike.ratio, body_wick.body_ratio)]

ema_slow == 200

(* TrendAnalyzer.analyze_trend: 'trend' of its result.  tolerance is          *)
(* current_ema200 * 0.005                                                     *)
analyze_trend(m15) ==
    IF m15.len < ema_slow THEN "ranging"
    ELSE LET tolerance == Fraction(m15.ema200, 200)
         IN  IF frac_lt(frac_add(Whole(m15.ema200), tolerance), Whole(m15.ema50))
             THEN "bullish"
             ELSE IF frac_lt(Whole(m15.ema50), frac_sub(Whole(m15.ema200), tolerance))
                  THEN "bearish"
                  ELSE "ranging"

(* TrendAnalyzer.analyze_h1_bias: 'bias' of its result *)
analyze_h1_bias(h1_candle) ==
    LET candle_range == h1_candle.high - h1_candle.low
        mid_point == Fraction(h1_candle.open + h1_candle.close, 2)
        body_position == frac_div(frac_sub(mid_point, Whole(h1_candle.low)),
                                  Whole(candle_range))
    IN  IF candle_range = 0 THEN "neutral"
        ELSE IF frac_lt(Fraction(1, 2), body_position) THEN "bullish"
        ELSE IF frac_lt(body_position, Fraction(1, 2)) THEN "bearish"
        ELSE "neutral"

(* TrendAnalyzer.get_trend_confirmation *)
get_trend_confirmation(m15, h1_candle) ==
    LET m15_direction == analyze_trend(m15)
        h1_direction == analyze_h1_bias(h1_candle)
    IN  [m15_trend |-> m15_direction,
         h1_bias |-> h1_direction,
         confirmed |-> \/ m15_direction = "bullish" /\ h1_direction = "bullish"
                       \/ m15_direction = "bearish" /\ h1_direction = "bearish"
                       \/ m15_direction = "ranging"]

(* TrendAnalyzer.calculate_ema: ema[i] of the array it returns, the candles   *)
(* counted from 1; the entries before the first average stay np.zeros         *)
RECURSIVE ema_at(_, _, _)
ema_at(candles, period, i) ==
    IF i < period THEN Whole(0)
    ELSE IF i = period
         THEN Fraction(SumSeq([k \in 1..period |-> candles[k].close]), period)
         ELSE frac_add(frac_mul(Whole(candles[i].close), Fraction(2, period + 1)),
                       frac_mul(ema_at(candles, period, i - 1),
                                Fraction(period - 1, period + 1)))

sr_lookback == 3
sr_min_touches == 2

(* SupportResistanceDetector.detect_swings: is candle i a swing of the kind *)
is_swing(candles, i, kind) ==
    \A j \in 1..sr_lookback :
        IF kind = "high"
        THEN candles[i].high > candles[i - j].high /\ candles[i].high > candles[i + j].high
        ELSE candles[i].low < candles[i - j].low /\ candles[i].low < candles[i + j].low

(* sorted(swing_list, key=lambda x: x['price']): one more price put in place *)
RECURSIVE insert_sorted(_, _)
insert_sorted(prices, price) ==
    IF prices = <<>> THEN <<price>>
    ELSE IF price < Head(prices) THEN <<price>> \o prices
    ELSE <<Head(prices)>> \o insert_sorted(Tail(prices), price)

(* The prices of the swings of one kind among candles lookback+1 .. last,     *)
(* in ascending order                                                         *)
RECURSIVE sorted_swings(_, _, _)
sorted_swings(candles, last, kind) ==
    IF last <= sr_lookback THEN <<>>
    ELSE LET earlier == sorted_swings(candles, last - 1, kind)
         IN  IF is_swing(candles, last, kind)
             THEN insert_sorted(earlier, IF kind = "high" THEN candles[last].high
                                        ELSE candles[last].low)
             ELSE earlier

(* 'strength': min(1.0, len(current_cluster) / 5.0) *)
zone_strength(touches) == frac_min(Whole(1), Fraction(touches, 5))

Zone(total, touches, kind) ==
    [price |-> Fraction(total, touches), type |-> kind, touches |-> touches,
     strength |-> zone_strength(touches)]

(* The clustering loop of cluster_zones over sorted_swings[i:], the current   *)
(* cluster starting at price first and holding touches swings that sum to     *)
(* total; tolerance is current_cluster[0]['price'] * 0.0005                   *)
RECURSIVE clustered(_, _, _, _, _, _)
clustered(prices, i, first, total, touches, kind) ==
    IF i > Len(prices) THEN <<Zone(total, touches, kind)>>
    ELSE IF 2000 * Abs(prices[i] - first) <= first
         THEN clustered(prices, i + 1, first, total + prices[i], touches + 1, kind)
         ELSE <<Zone(total, touches, kind)>>
              \o clustered(prices, i + 1, prices[i], prices[i], 1, kind)

(* SupportResistanceDetector.cluster_zones(detect_swings(candles)) *)
cluster_zones(candles) ==
    LET of_kind(kind) ==
            LET prices == sorted_swings(candles, Len(candles) - sr_lookback, kind)
            IN  IF prices = <<>> THEN <<>>
                ELSE clustered(prices, 2, prices[1], prices[1], 1, kind)
        enough(zone) == zone.touches >= sr_min_touches
    IN  SelectSeq(of_kind("high") \o of_kind("low"), enough)

(* SupportResistanceDetector.update_zones on a non-empty list: the detector   *)
(* after the call; get_zones returns its zones                                *)
update_zones(detector, candles) ==
    LET count == detector.candle_count + Len(candles)
    IN  IF count >= rebuild_every \/ detector.zones = <<>>
        THEN [candle_count |-> 0, zones |-> cluster_zones(candles)]
        ELSE [candle_count |-> count, zones |-> detector.zones]

(* LiquiditySweepDetector.detect_wick_touch: tolerance is zone_price * 0.001 *)
detect_wick_touch(current, zone_price) ==
    LET tolerance == frac_mul(zone_price, Fraction(1, 1000))
        high_distance == frac_abs(frac_sub(Whole(current.high), zone_price))
        low_distance == frac_abs(frac_sub(Whole(current.low), zone_price))
    IN  IF frac_leq(high_distance, tolerance)
        THEN [touched |-> TRUE, distance |-> high_distance]
        ELSE IF frac_leq(low_distance, tolerance)
             THEN [touched |-> TRUE, distance |-> low_distance]
             ELSE [touched |-> FALSE, distance |-> frac_min(high_distance, low_distance)]

(* LiquiditySweepDetector.validate_closure_inside *)
validate_closure_inside(current, previous) ==
    LET inside == current.close >= previous.low /\ current.close <= previous.high
        prev_range == previous.high - previous.low
    IN  [inside |-> inside,
         closure_ratio |-> IF ~inside THEN Whole(0)
                           ELSE IF prev_range = 0 THEN Fraction(1, 2)
                           ELSE Fraction(current.close - previous.low, prev_range)]

min_closure_ratio == Fraction(1, 2)

(* The body of the loop of detect_sweep for one zone: best_score after it *)
sweep_score_after(current, previous, zone, best_score) ==
    LET wick_touch == detect_wick_touch(current, zone.price)
        closure == validate_closure_inside(current, previous)
        touch_score ==
            frac_sub(Whole(1),
                     frac_min(Whole(1),
                              frac_div(wick_touch.distance,
                                       frac_mul(zone.price, Fraction(1, 100)))))
        closure_score == IF frac_lt(min_closure_ratio, closure.closure_ratio)
                         THEN closure.closure_ratio ELSE Whole(0)
        final_score == frac_mul(frac_div(frac_add(touch_score, closure_score), Whole(2)),
                                zone.strength)
    IN  IF wick_touch.touched /\ closure.inside /\ frac_lt(best_score, final_score)
        THEN final_score ELSE best_score

RECURSIVE best_sweep_score(_, _, _)
best_sweep_score(candles, zones, k) ==
    IF k = 0 THEN Whole(0)
    ELSE sweep_score_after(candles[Len(candles)], candles[Len(candles) - 1], zones[k],
                           best_sweep_score(candles, zones, k - 1))

(* LiquiditySweepDetector.detect_sweep: 'score' of its result.  best_sweep    *)
(* is set exactly when best_score has risen above 0.0                         *)
detect_sweep(candles, zones) ==
    IF Len(candles) < 2 THEN Whole(0)
    ELSE frac_min(Whole(1), best_sweep_score(candles, zones, Len(zones)))

Undetected == [detected |-> FALSE, confidence |-> Whole(0)]
Detected(confidence) == [detected |-> TRUE, confidence |-> confidence]

(* PriceActionAnalyzer.detect_engulfing *)
detect_engulfing(candles) ==
    IF Len(candles) < 2 THEN Undetected
    ELSE LET prev == candles[Len(candles) - 1]
             curr == candles[Len(candles)]
             prev_body == Abs(prev.close - prev.open)
             curr_body == Abs(curr.close - curr.open)
             prev_range == prev.high - prev.low
         IN  IF prev_range = 0 THEN Undetected
             ELSE IF curr.high > prev.high /\ curr.low < prev.low /\ curr_body > prev_body
                  THEN Detected(frac_min(Whole(1), Fraction(curr_body, prev_range)))
                  ELSE Undetected

(* PriceActionAnalyzer.detect_pinbar *)
detect_pinbar(candles) ==
    IF Len(candles) < 1 THEN Undetected
    ELSE LET candle == candles[Len(candles)]
             full_range == candle.high - candle.low
             body_ratio == Fraction(Abs(candle.close - candle.open), full_range)
             long_wick_ratio ==
                 IF candle.close > candle.open
                 THEN Fraction(candle.high - candle.close, full_range)
                 ELSE Fraction(candle.close - candle.low, full_range)
         IN  IF full_range = 0 THEN Undetected
             ELSE IF frac_lt(body_ratio, Fraction(3, 10))
                     /\ frac_lt(Fraction(2, 5), long_wick_ratio)
                  THEN Detected(frac_mul(frac_min(Whole(1), long_wick_ratio),
                                         frac_sub(Whole(1), body_ratio)))
                  ELSE Undetected

(* PriceActionAnalyzer.detect_morning_star (rising TRUE) and                  *)
(* detect_evening_star (rising FALSE)                                         *)
detect_star(candles, rising) ==
    IF Len(candles) < 3 THEN Undetected
    ELSE LET c1 == candles[Len(candles) - 2]
             c2 == candles[Len(candles) - 1]
             c3 == candles[Len(candles)]
             c1_range == c1.high - c1.low
             c1_falls == IF rising THEN c1.close < c1.open ELSE c1.close > c1.open
             c2_small == 2 * Abs(c2.close - c2.open) < c1_range
             c3_turns == IF rising THEN c3.close > c3.open ELSE c3.close < c3.open
             travelled == IF rising THEN c3.close - c1.open ELSE c1.close - c3.open
         IN  IF c1_falls /\ c2_small /\ c3_turns
             THEN Detected(frac_max(Fraction(1, 2),
                                    frac_min(Whole(1), Fraction(travelled, c1_range))))
             ELSE Undetected

RECURSIVE max_high(_, _, _)
max_high(candles, first, last) ==
    IF first = last THEN candles[first].high
    ELSE LET rest == max_high(candles, first, last - 1)
         IN  IF candles[last].high > rest THEN candles[last].high ELSE rest

RECURSIVE min_low(_, _, _)
min_low(candles, first, last) ==
    IF first = last THEN candles[first].low
    ELSE LET rest == min_low(candles, first, last - 1)
         IN  IF candles[last].low < rest THEN candles[last].low ELSE rest

(* PriceActionAnalyzer.detect_break_of_structure *)
detect_break_of_structure(candles) ==
    IF Len(candles) < 5 THEN Undetected
    ELSE LET current == candles[Len(candles)]
             swing_high == max_high(candles, Len(candles) - 4, Len(candles) - 1)
             swing_low == min_low(candles, Len(candles) - 4, Len(candles) - 1)
         IN  IF current.close > swing_high /\ current.close > current.open
             THEN Detected(frac_min(Whole(1),
                                    Fraction(current.close - swing_high, swing_high)))
             ELSE IF current.close < swing_low /\ current.close < current.open
                  THEN Detected(frac_min(Whole(1),
                                         Fraction(swing_low - current.close, swing_low)))
                  ELSE Undetected

(* PriceActionAnalyzer.detect_fair_value_gap *)
detect_fair_value_gap(candles) ==
    IF Len(candles) < 2 THEN Undetected
    ELSE LET prev == candles[Len(candles) - 1]
             curr == candles[Len(candles)]
         IN  IF curr.low > prev.high
             THEN Detected(frac_min(Whole(1), Fraction(curr.low - prev.high, prev.high)))
             ELSE IF curr.high < prev.low
                  THEN Detected(frac_min(Whole(1),
                                         Fraction(prev.low - curr.high, prev.low)))
                  ELSE Undetected

(* self.trend_analyzer.calculate_ema(closes, 50) in generate_signal *)
retest_ema_period == 50

(* PriceActionAnalyzer.detect_ema_retest on ema_values =                      *)
(* calculate_ema(closes, 50), an array as long as the series                  *)
detect_ema_retest(candles) ==
    IF Len(candles) < 10 THEN Undetected
    ELSE LET prev_ema == ema_at(candles, retest_ema_period, Len(candles) - 1)
             curr_ema == ema_at(candles, retest_ema_period, Len(candles))
             close == Whole(candles[Len(candles)].close)
             prev_above == frac_lt(prev_ema, Whole(candles[Len(candles) - 1].close))
             gap == frac_abs(frac_sub(close, curr_ema))
             near == frac_lt(gap, frac_mul(curr_ema, Fraction(1, 200)))
             retest_down == prev_above /\ (frac_lt(close, curr_ema) \/ near)
             retest_up == ~prev_above /\ (frac_lt(curr_ema, close) \/ near)
             distance == frac_div(gap, curr_ema)
         IN  IF retest_down \/ retest_up
             THEN Detected(frac_sub(Whole(1),
                                    frac_min(Whole(1), frac_mul(distance, Whole(100)))))
             ELSE Undetected

(* The loop of detect_sr_retest over sr_zones[k:]; tolerance is               *)
(* zone_price * 0.01                                                          *)
RECURSIVE sr_retest_from(_, _, _)
sr_retest_from(candles, zones, k) ==
    IF k > Len(zones) THEN Undetected
    ELSE LET zone_price == zones[k].price
             current == Whole(candles[Len(candles)].close)
             prev_above == frac_lt(zone_price, Whole(candles[Len(candles) - 1].close))
             curr_near == frac_lt(frac_abs(frac_sub(current, zone_price)),
                                  frac_mul(zone_price, Fraction(1, 100)))
         IN  IF curr_near /\ prev_above # frac_lt(zone_price, current)
             THEN Detected(frac_min(Whole(1), frac_mul(zones[k].strength, Fraction(3, 2))))
             ELSE sr_retest_from(candles, zones, k + 1)

(* PriceActionAnalyzer.detect_sr_retest *)
detect_sr_retest(candles, zones) ==
    IF Len(candles) < 2 \/ zones = <<>> THEN Undetected
    ELSE sr_retest_from(candles, zones, 1)

(* PriceActionAnalyzer.calculate_confirmation_score, called with              *)
(* ema_values = calculate_ema(closes, 50): None for fewer than 50 candles     *)
calculate_confirmation_score(candles, zones) ==
    LET patterns ==
            <<detect_engulfing(candles), detect_pinbar(candles),
              detect_star(candles, TRUE), detect_star(candles, FALSE),
              detect_break_of_structure(candles), detect_fair_value_gap(candles)>>
            \o (IF Len(candles) >= retest_ema_period THEN <<detect_ema_retest(candles)>> ELSE <<>>)
            \o (IF zones # <<>> THEN <<detect_sr_retest(candles, zones)>> ELSE <<>>)
        total[k \in 0..Len(patterns)] ==
            IF k = 0 THEN Whole(0) ELSE frac_add(total[k - 1], patterns[k].confidence)
    IN  [confirmation_count |-> Cardinality({k \in DOMAIN patterns : patterns[k].detected}),
         confirmation_score |-> frac_div(total[Len(patterns)], Whole(Len(patterns)))]

min_signal_strength == Fraction(1, 2)

(* spread_check = current_bid_ask_spread > self.max_spread_points *)
spread_check_inclusive(spread) == spread >= max_spread_points
spread_check(spread) == spread > max_spread_points

(* atm_tp * self.atr_multiplier_tpN, the multiplier counted in halves *)
target_distance_fixed(atm_tp, multiplier) == atm_tp
target_distance(atm_tp, multiplier) == frac_mul(atm_tp, Fraction(multiplier, 2))

(* np.mean of the four numeric component scores *)
mean_score(scores) ==
    frac_div(frac_add(frac_add(scores.trend_strength, scores.breakout_score),
                      frac_add(scores.sweep_score, scores.pa_score)),
             Whole(4))

NoScores == [k \in {} |-> Whole(0)]

SignalResult(direction, entry_price, stop_loss, tp1, tp2, signal_strength,
             confirmation_count, component_scores, skip_reason) ==
    [called |-> TRUE, direction |-> direction, entry_price |-> entry_price,
     stop_loss |-> stop_loss, tp1 |-> tp1, tp2 |-> tp2,
     signal_strength |-> signal_strength, confirmation_count |-> confirmation_count,
     component_scores |-> component_scores, skip_reason |-> skip_reason]

(* generate_signal, the calls of the engines: get_trend_confirmation,         *)
(* get_zones, generate_breakout_signal, detect_sweep and                      *)
(* calculate_confirmation_score, each made once, on the zones get_zones       *)
(* returned                                                                   *)
engine_results(m5, m15, h1, detector) ==
    CHOOSE engines \in
        {[trend_result |-> get_trend_confirmation(m15, h1[Len(h1)]),
          after_zones |-> zoned,
          breakout_result |-> generate_breakout_signal(m5),
          sweep_score |-> detect_sweep(m5, zoned.zones),
          pa_result |-> calculate_confirmation_score(m5, zoned.zones)]
         : zoned \in {update_zones(detector, m5)}} : TRUE

(* generate_signal, the component_scores dictionary *)
component_scores_of(engines) ==
    [trend_strength |-> IF engines.trend_result.confirmed THEN Fraction(7, 10)
                        ELSE Fraction(3, 10),
     breakout_score |-> engines.breakout_result.strength,
     sweep_score |-> engines.sweep_score,
     pa_score |-> engines.pa_result.confirmation_score,
     trend_direction |-> engines.trend_result.m15_trend,
     h1_bias |-> engines.trend_result.h1_bias]

(* generate_signal, the ATR the targets are measured in: calculate_atr over   *)
(* 14 candles, or the range of the current candle when that is None           *)
target_atr(m5) ==
    CHOOSE atm_tp \in
        {IF atr = NoneNumber THEN Whole(m5[Len(m5)].high - m5[Len(m5)].low) ELSE atr
         : atr \in {calculate_atr(m5, atr_period)}} : TRUE

(* generate_signal from the no_breakout gate on, the engines having returned *)
decision(m5, multipliers, entry_price, engines, atm_tp) ==
    LET current_candle == m5[Len(m5)]
        component_scores == component_scores_of(engines)
        final_strength == mean_score(component_scores)
        confirmation_count == engines.pa_result.confirmation_count
        direction == engines.breakout_result.signal
        recent_first == IF Len(m5) > 20 THEN Len(m5) - 19 ELSE 1
        stop_offset == Fraction(20 * current_candle.close, 10000)
        stop_loss == IF direction = "LONG"
                     THEN frac_sub(Whole(min_low(m5, recent_first, Len(m5))), stop_offset)
                     ELSE frac_add(Whole(max_high(m5, recent_first, Len(m5))), stop_offset)
        tp1 == IF direction = "LONG"
               THEN frac_add(entry_price, target_distance(atm_tp, multipliers.tp1))
               ELSE frac_sub(entry_price, target_distance(atm_tp, multipliers.tp1))
        tp2 == IF direction = "LONG"
               THEN frac_add(entry_price, target_distance(atm_tp, multipliers.tp2))
               ELSE frac_sub(entry_price, target_distance(atm_tp, multipliers.tp2))
    IN  IF direction = "NONE"
        THEN SignalResult("NONE", entry_price, Whole(0), Whole(0), Whole(0),
                          Whole(0), confirmation_count, component_scores, "no_breakout")
        ELSE IF frac_lt(final_strength, min_signal_strength)
        THEN SignalResult("NONE", entry_price, stop_loss, tp1, tp2, final_strength,
                          confirmation_count, component_scores, "strength_too_low")
        ELSE SignalResult(direction, entry_price, stop_loss, tp1, tp2, final_strength,
                          confirmation_count, component_scores, "None")

(* SignalGenerator.generate_signal: the SignalResult it returns and the       *)
(* detector of the generator after the call                                   *)
generate_signal(m5, m15, h1, spread, detector, multipliers) ==
    IF m5 = <<>> \/ m15.len = 0 \/ h1 = <<>>
    THEN [result |-> SignalResult("NONE", Whole(0), Whole(0), Whole(0), Whole(0),
                                  Whole(0), 0, NoScores, "insufficient_data"),
          detector |-> detector]
    ELSE IF spread_check(spread)
    THEN [result |-> SignalResult("NONE",
                                  Fraction(m5[Len(m5)].high + m5[Len(m5)].low, 2),
                                  Whole(0), Whole(0), Whole(0),
                                  Whole(0), 0, NoScores, "spread_too_wide"),
          detector |-> detector]
    ELSE CHOOSE outcome \in
             {[result |-> decision(m5, multipliers, staged[1], staged[2], staged[3]),
               detector |-> staged[2].after_zones]
              : staged \in {<<Fraction(m5[Len(m5)].high + m5[Len(m5)].low, 2),
                             engine_results(m5, m15, h1, detector),
                             target_atr(m5)>>}} : TRUE

(* The candle shapes the series are built from, around a base price *)
base_price == 100
QuietDown == Candle(base_price + 1, base_price + 3, base_price, base_price)
QuietUp == Candle(base_price + 2, base_price + 3, base_price, base_price + 3)
Flat == Candle(base_price, base_price, base_price, base_price)
QuietShapes == {QuietDown, QuietUp, Flat}

(* A quiet candle whose wicks reach one tick further on both sides *)
Spike(quiet) == [quiet EXCEPT !.high = @ + 1, !.low = @ - 1]

(* The last candle of a series: quiet ones, wide rising and falling ones,     *)
(* with and without wicks, and one without range                              *)
LastShapes ==
    {QuietDown, Flat,
     Candle(base_price - 55, base_price + 4, base_price - 57, base_price + 3),
     Candle(base_price - 1, base_price + 40, base_price - 1, base_price + 40),
     Candle(base_price + 4, base_price + 4, base_price - 40, base_price - 40),
     Candle(base_price + 58, base_price + 60, base_price - 1, base_price + 3),
     Candle(base_price, base_price + 40, base_price - 1, base_price + 10)}

(* How many quiet candles precede the last one *)
QuietLengths == {0, 20, 49, 50}

(* Where the spikes stand among the quiet candles *)
SpikePlaces == {{}, {4, 8, 12, 16, 20, 24}}

Series(quiet_count, quiet, spikes, last) ==
    [i \in 1..quiet_count |-> IF i \in spikes THEN Spike(quiet) ELSE quiet] \o <<last>>

M5Series ==
    {<<>>} \cup {Series(n, quiet, spikes, last) :
                   n \in QuietLengths, quiet \in QuietShapes,
                   spikes \in SpikePlaces, last \in LastShapes}

(* The M15 series: none, one too short for the EMA200, and a long one whose   *)
(* EMA50 lies above the EMA200 by more than the tolerance                     *)
M15Series ==
    {[len |-> 0, ema50 |-> 0, ema200 |-> 0],
     [len |-> 1, ema50 |-> 0, ema200 |-> 0],
     [len |-> ema_slow, ema50 |-> base_price + 2, ema200 |-> base_price]}

H1Series == {<<>>, <<QuietDown>>}

SpreadPoints == {0, max_spread_points, max_spread_points + 1}

(* atr_multiplier_tp1 < atr_multiplier_tp2, in halves: the defaults 1.5 and   *)
(* 2.5, and 0.5 and 3.0                                                       *)
AtrMultipliers == {[tp1 |-> 3, tp2 |-> 5], [tp1 |-> 1, tp2 |-> 6]}

NoSignal == [called |-> FALSE]

ParkSignal ==
    /\ m5_candles = <<>>
    /\ m15_candles = [len |-> 0, ema50 |-> 0, ema200 |-> 0]
    /\ h1_candles = <<>>
    /\ current_bid_ask_spread = 0
    /\ atr_multipliers = [tp1 |-> 3, tp2 |-> 5]
    /\ generator_sr = [candle_count |-> 0, zones |-> <<>>]
    /\ signal_result = NoSignal
    /\ signal_calls = 0

(* SignalGenerator.__init__ and the arguments of the first call *)
InitSignal ==
    /\ m5_candles \in M5Series
    /\ m15_candles \in M15Series
    /\ h1_candles \in H1Series
    /\ current_bid_ask_spread \in SpreadPoints
    /\ atr_multipliers \in AtrMultipliers
    /\ generator_sr = [candle_count |-> 0, zones |-> <<>>]
    /\ signal_result = NoSignal
    /\ signal_calls = 0

(* generate_signal(symbol, m5_candles, m15_candles, h1_candles, spread) *)
GenerateSignal ==
    /\ ~signal_result.called
    /\ signal_calls < MaxSignalCalls
    /\ \E outcome \in {generate_signal(m5_candles, m15_candles, h1_candles,
                                        current_bid_ask_spread, generator_sr,
                                        atr_multipliers)} :
          /\ signal_result' = outcome.result
          /\ generator_sr' = outcome.detector
    /\ signal_calls' = signal_calls + 1
    /\ UNCHANGED <<m5_candles, m15_candles, h1_candles, current_bid_ask_spread,
                   atr_multipliers>>
    /\ UNCHANGED notSignal

(* The next cycle: the last M5 candle of the window is another one and the    *)
(* spread is quoted anew                                                      *)
NextCycle ==
    /\ signal_result.called
    /\ signal_calls < MaxSignalCalls
    /\ m5_candles # <<>>
    /\ \E last \in LastShapes, spread \in SpreadPoints :
          /\ m5_candles' = [m5_candles EXCEPT ![Len(m5_candles)] = last]
          /\ current_bid_ask_spread' = spread
    /\ signal_result' = NoSignal
    /\ UNCHANGED <<m15_candles, h1_candles, atr_multipliers, generator_sr, signal_calls>>
    /\ UNCHANGED notSignal

NextSignal ==
    \/ GenerateSignal
    \/ NextCycle

-----------------------------------------------------------------------------
(* The specifications: one per component, the others at rest *)

AtRest(component) ==
    /\ component = "risk" \/ InitRisk
    /\ component = "submit" \/ ParkSubmit
    /\ component = "state" \/ InitState
    /\ component = "partial" \/ ParkPartial
    /\ component = "size" \/ ParkSize
    /\ component = "spread" \/ ParkSpread
    /\ component = "firstrun" \/ InitFirstRun
    /\ component = "shutdown" \/ ParkShutdown
    /\ component = "readers" \/ ParkReaders
    /\ component = "recovery" \/ ParkRecovery
    /\ component = "notify" \/ ParkNotify
    /\ component = "stream" \/ ParkStream
    /\ component = "zones" \/ InitZones
    /\ component = "loop" \/ ParkLoop
    /\ component = "signal" \/ ParkSignal

InitSpecRisk == InitRisk /\ AtRest("risk")
SpecRisk == InitSpecRisk /\ [][NextRisk]_vars

InitSpecSubmit == InitSubmit /\ AtRest("submit")
SpecSubmit == InitSpecSubmit /\ [][NextSubmit]_vars

InitSpecState == InitState /\ AtRest("state")
SpecState == InitSpecState /\ [][NextState]_vars

SpecCrash == InitSpecState /\ [][NextCrash]_vars

InitSpecPartial == InitPartial /\ AtRest("partial")
SpecPartial == InitSpecPartial /\ [][NextPartial]_vars

InitSpecSize == InitSize /\ AtRest("size")
SpecSize == InitSpecSize /\ [][NextSize]_vars

InitSpecSpread == InitSpread /\ AtRest("spread")
SpecSpread == InitSpecSpread /\ [][NextSpread]_vars

InitSpecFirstRun == InitFirstRun /\ AtRest("firstrun")
SpecFirstRun == InitSpecFirstRun /\ [][NextFirstRun]_vars

InitSpecShutdown == InitShutdown /\ AtRest("shutdown")
SpecShutdown == InitSpecShutdown /\ [][NextShutdown]_vars

InitSpecReaders == InitReaders /\ AtRest("readers")
SpecReaders == InitSpecReaders /\ [][NextReaders]_vars

InitSpecRecovery == InitRecovery /\ AtRest("recovery")
SpecRecovery == InitSpecRecovery /\ [][NextRecovery]_vars

InitSpecNotify == InitNotify /\ AtRest("notify")
SpecNotify == InitSpecNotify /\ [][NextNotify]_vars

InitSpecStream == InitStream /\ AtRest("stream")
SpecStream == InitSpecStream /\ [][NextStream]_vars

InitSpecZones == InitZones /\ AtRest("zones")
SpecZones == InitSpecZones /\ [][NextZones]_vars

InitSpecLoop == InitLoop /\ AtRest("loop")
SpecLoop == InitSpecLoop /\ [][NextLoop]_vars

InitSpecSignal == InitSignal /\ AtRest("signal")
SpecSignal == InitSpecSignal /\ [][NextSignal]_vars

-----------------------------------------------------------------------------
(* C1: when create_order fails on every call, submit_order_with_retry makes *)
(* exactly max_retries attempts, returns None and raises nothing.           *)
C1_RetryExhaustion ==
    /\ pc_submit # "raised"
    /\ (pc_submit = "returned" /\ all_failed) =>
          /\ Len(submitted) = max_retries
          /\ submit_result = "None"

C1_Witness ==
    /\ pc_submit = "returned"
    /\ all_failed
    /\ max_retries = 3
    /\ Len(submitted) = 3

(* C2: within one UTC date, check_daily_loss_limit blocks exactly when the  *)
(* PnL accumulated by the track_daily_pnl calls is at or below              *)
(* -(account_balance * max_daily_loss / 100); with balance 10000 and 5%,    *)
(* the losses -200, -150 are still allowed and -200, -150, -300 blocked.    *)
C2_DailyLossBreaker ==
    /\ (check_result # "none" /\ started = today) =>
          (check_result = "blocked" <=>
              100 * (loaded_pnl + SumSeq(tracked))
                  <= -(account_balance * max_daily_loss_pct))
    /\ (check_result # "none" /\ loaded_pnl = 0 /\ tracked = <<-200, -150>>) =>
          check_result = "allowed"
    /\ (check_result # "none" /\ loaded_pnl = 0 /\ tracked = <<-200, -150, -300>>) =>
          check_result = "blocked"

C2_Witness ==
    /\ check_result = "blocked"
    /\ started = today
    /\ tracked = <<-200, -150, -300>>

(* C3: once the breaker has tripped every later check on the same UTC date  *)
(* blocks, and a RiskManager that has run across a date rollover judges the *)
(* PnL of the new date only (the accumulation was reset to 0).              *)
C3_LatchedUntilRollover ==
    /\ (check_result # "none" /\ tripped = today) => check_result = "blocked"
    /\ (check_result # "none" /\ started < today) =>
          (check_result = "blocked" <=>
              100 * pnl_today <= -(account_balance * max_daily_loss_pct))

(* C4: every increment_consecutive_losses call raises the counter by one    *)
(* and allows continuation iff the new counter is below the limit; further  *)
(* losses without a reset stay blocked.                                     *)
C4_ConsecutiveLossBreaker ==
    /\ consecutive_loss_counter = losses_since_reset
    /\ inc_result # "none" =>
          (inc_result = "allowed" <=> losses_since_reset < max_consecutive_losses)
    /\ (inc_result # "none" /\ losses_since_reset = 1) => inc_result = "allowed"
    /\ (inc_result # "none" /\ losses_since_reset >= 2) => inc_result = "blocked"

C4_Witness ==
    /\ inc_result = "blocked"
    /\ consecutive_loss_counter = max_consecutive_losses + 1

(* C5: after a completed save no .tmp file is left in the data directory,   *)
(* and a load_* interleaved with a save returns the complete list of        *)
(* before the save or the complete new list, never a half-written file.     *)
C5_AtomicSave ==
    /\ (pc_save = "idle" /\ saves_done > 0) => \A n \in TempNames : ~files[n].exists
    /\ load_result.doc # "none" =>
          /\ ~load_result.partial
          /\ load_result.value \in {load_result.before, load_result.after}

C5_Witness ==
    /\ load_result.doc # "none"
    /\ load_result.during \in {"write", "rename"}
    /\ load_result.value = load_result.before
    /\ load_result.value # <<>>
    /\ load_result.before # load_result.after
    /\ pc_save = "idle"
    /\ saves_done >= 2

(* C6: whatever step of save_* the process crashes at, the target file is   *)
(* whole and holds the list of before the save or the new list, and a       *)
(* load_* after the crash returns it.                                       *)
C6_CrashSafeSave ==
    /\ \A d \in Documents :
          LET file == files[target_file(d)]
          IN  /\ file.exists => file.complete
              /\ load_view(file) \in {before[d], after[d]}
    /\ (load_result.doc # "none" /\ load_result.crashes > 0) =>
          /\ ~load_result.partial
          /\ load_result.value \in {load_result.before, load_result.after}

C6_Witness ==
    /\ load_result.doc # "none"
    /\ load_result.crashes > 0
    /\ load_result.value = load_result.before
    /\ load_result.value # <<>>
    /\ load_result.before # load_result.after
    /\ pc_save = "idle"
    /\ files[temp_file(load_result.doc)].exists
    /\ ~files[temp_file(load_result.doc)].complete

-----------------------------------------------------------------------------
(* C8 as stated: every result of randomize_partial_close_percentages has    *)
(* 0.28 <= tp1 <= 0.35, 0.38 <= tp2 <= 0.42, runner in [0.23, 0.34] and      *)
(* tp1 + tp2 + runner equal to 1.  The float sum is not 1.0 for every        *)
(* random outcome.                                                           *)
C8_ExactSplit ==
    partial_close.calls = 1 =>
        /\ big_leq(tp1_pct_low, partial_close.tp1) /\ big_leq(partial_close.tp1, tp1_pct_high)
        /\ big_leq(tp2_pct_low, partial_close.tp2) /\ big_leq(partial_close.tp2, tp2_pct_high)
        /\ big_leq(runner_pct_low, partial_close.runner)
        /\ big_leq(partial_close.runner, runner_pct_high)
        /\ float_sum(partial_close) = float_one

(* 2^-53, the distance from 1.0 to the float below it *)
half_spacing_at_one == big(0, Power(2, FloatUnitBits - mantissa_bits))

(* C8, amended: every result of randomize_partial_close_percentages has     *)
(* 0.28 <= tp1 <= 0.35, 0.38 <= tp2 <= 0.42, a positive runner in            *)
(* [0.23, 0.34], and tp1 + tp2 + runner within one float rounding of 1: the  *)
(* float sum is 1.0 or 1.0 - 2^-53, and the exact sum is within 2^-54 of 1.  *)
C8_SplitWithinRounding ==
    partial_close.calls = 1 =>
        /\ big_leq(tp1_pct_low, partial_close.tp1) /\ big_leq(partial_close.tp1, tp1_pct_high)
        /\ big_leq(tp2_pct_low, partial_close.tp2) /\ big_leq(partial_close.tp2, tp2_pct_high)
        /\ big_leq(runner_pct_low, partial_close.runner)
        /\ big_leq(partial_close.runner, runner_pct_high)
        /\ partial_close.runner # big(0, 0)
        /\ float_sum(partial_close) \in {float_one, big_sub(float_one, half_spacing_at_one)}
        /\ LET exact_sum == big_add(big_add(partial_close.tp1, partial_close.tp2),
                                    partial_close.runner)
               distance == IF big_leq(exact_sum, float_one)
                           THEN big_sub(float_one, exact_sum)
                           ELSE big_sub(exact_sum, float_one)
           IN  big_add(distance, distance) \in {big(0, 0), half_spacing_at_one}

(* A call whose three shares do not add up to 1.0 in floats, tp1 at neither end *)
C8_Witness ==
    /\ partial_close.calls = 1
    /\ float_sum(partial_close) # float_one
    /\ partial_close.tp1 # tp1_pct_low
    /\ big_leq(runner_pct_low, partial_close.runner)

-----------------------------------------------------------------------------
(* C9 as stated: position_size returns 0 when entry == stop and otherwise    *)
(* exactly max(risk_amount / |entry - stop|, exchange_min_lot_size), 35 for  *)
(* entry 100 and stop 95.  The code rounds the size to 8 decimals.           *)
C9_ExactQuotient ==
    size_result.set =>
        LET sl_distance == Abs(size_input.entry_price - size_input.stop_loss)
            lot == size_input.min_lot
        IN  IF sl_distance = 0 THEN size_result.whole = 0 /\ size_result.frac = 0
            ELSE IF quotient_at_least(risk_amount, sl_distance, lot)
                 THEN /\ size_result.whole = risk_amount \div sl_distance
                      /\ size_result.frac * sl_distance = (risk_amount % sl_distance) * SizeUnit
                 ELSE size_result.whole = lot.whole /\ size_result.frac = lot.frac

(* C9, amended: position_size returns 0 when entry == stop and otherwise     *)
(* max(risk_amount / |entry - stop|, exchange_min_lot_size) rounded to 8     *)
(* decimals: a non-zero size comes only from entry != stop, is never below   *)
(* the minimum lot and is within 0.000000005 of the quotient when the        *)
(* quotient is the larger; entry 100 and stop 95 give 35.                    *)
C9_RoundedQuotient ==
    size_result.set =>
        LET sl_distance == Abs(size_input.entry_price - size_input.stop_loss)
            lot == size_input.min_lot
            nonzero == size_result.whole # 0 \/ size_result.frac # 0
        IN  /\ size_result.frac \in 0..(SizeUnit - 1)
            /\ nonzero <=> size_input.entry_price # size_input.stop_loss
            /\ nonzero =>
                  /\ \/ size_result.whole > lot.whole
                     \/ size_result.whole = lot.whole /\ size_result.frac >= lot.frac
                  /\ IF quotient_at_least(risk_amount, sl_distance, lot)
                     THEN /\ size_result.whole = risk_amount \div sl_distance
                          /\ 2 * Abs(size_result.frac * sl_distance
                                     - (risk_amount % sl_distance) * SizeUnit) <= sl_distance
                     ELSE size_result.whole = lot.whole /\ size_result.frac = lot.frac
            /\ (size_input.entry_price = 100 /\ size_input.stop_loss = 95
                    /\ lot = [whole |-> 0, frac |-> 100000])
                  => (size_result.whole = 35 /\ size_result.frac = 0)

(* Entry 100 and stop 97 with the default lot: 175 / 3, returned as 58.33333333 *)
C9_Witness ==
    /\ size_result.set
    /\ size_input.entry_price = 100 /\ size_input.stop_loss = 97
    /\ size_input.min_lot = [whole |-> 0, frac |-> 100000]
    /\ size_result.whole = 58 /\ size_result.frac = 33333333

-----------------------------------------------------------------------------
(* C10: spread_filter rejects exactly when bid <= 0, ask <= 0, bid > ask or  *)
(* the spread (ask - bid) / bid * 10000 exceeds max_spread_points; a spread  *)
(* equal to or below the ceiling is accepted.  The code rejects a spread     *)
(* equal to the ceiling.                                                     *)
C10_RejectsOnlyAboveCeiling ==
    spread_result # "none" =>
        (spread_result = "rejected" <=>
            \/ quote.bid <= 0
            \/ quote.ask <= 0
            \/ quote.bid > quote.ask
            \/ (quote.ask - quote.bid) * 10000 > max_spread_points * quote.bid)

-----------------------------------------------------------------------------
(* C11: starting from an empty data directory, once execute_safety_trade     *)
(* has returned an order and create_marker_file has run, every later         *)
(* check_first_run_status returns False.  The code still reports a first    *)
(* run while trade_history.json holds no recent trade, and nothing in the    *)
(* probe writes one.                                                         *)
C11_ProbeNeverRepeats ==
    (first_run_status.called /\ probe_completed /\ ~history_damaged)
        => ~first_run_status.first_run

-----------------------------------------------------------------------------
(* The last record of a readable, non-empty history *)
LastTrade == history_file.trades[Len(history_file.trades)]

HasLastTrade == history_file.kind = "list" /\ history_file.trades # <<>>

-----------------------------------------------------------------------------
(* C13: when the cancel-all-open-orders sweep does not finish within its     *)
(* 30 s bound, cleanup stops waiting at the bound, saves nothing, does not   *)
(* close the exchange and returns 1; cleanup goes on to its saves only from  *)
(* a sweep that ended within the bound.                                      *)
C13_TimeoutAborts ==
    /\ sweep_seconds <= cancel_timeout
    /\ timed_out =>
          /\ pc_cleanup = "returned"
          /\ exit_code = 1
          /\ sweep_seconds = cancel_timeout
          /\ ~close_called
          /\ positions_doc = docs_at_start.positions
          /\ trades_doc = docs_at_start.trades
    /\ pc_cleanup \in {"save", "close"} => ~timed_out
    /\ exit_code = 0 => ~timed_out

(* A sweep cut off with an order left, positions and trades waiting to be saved *)
C13_Witness ==
    /\ timed_out
    /\ exit_code = 1
    /\ exchange_orders # {}
    /\ exchange_orders # pending_at_start
    /\ truthy(cleanup_args.positions)
    /\ truthy(cleanup_args.trades)
    /\ cleanup_args.positions.list # docs_at_start.positions

-----------------------------------------------------------------------------
(* C14: with no pending orders, cleanup returns 1 when exchange.close does   *)
(* not complete within the 30 s bound.  The code awaits close without a      *)
(* bound and returns 0.                                                      *)
C14_SlowCloseFails ==
    (pc_cleanup = "returned" /\ close_called /\ pending_at_start = {}
        /\ close_seconds > cancel_timeout) => exit_code = 1

-----------------------------------------------------------------------------
(* C15: whenever cleanup returns 0, every order that was pending when it     *)
(* started has been cancelled.  The code logs a failed cancel or fetch and   *)
(* still returns 0.                                                          *)
C15_ZeroMeansAllCancelled ==
    exit_code = 0 => pending_at_start \cap exchange_orders = {}

-----------------------------------------------------------------------------
(* C16: in every cleanup run that calls exchange.close, the positions        *)
(* snapshot passed to cleanup is already in open_positions.json, and after   *)
(* cleanup returns 0 load_open_positions returns that snapshot, an empty     *)
(* one included.  The code skips the save of an empty snapshot.              *)
C16_SnapshotPersistedBeforeClose ==
    (close_called /\ cleanup_args.positions.given) =>
        /\ positions_at_close = json_dump(cleanup_args.positions.list)
        /\ exit_code = 0 => positions_doc = json_dump(cleanup_args.positions.list)

-----------------------------------------------------------------------------
(* C17: a non-zero consecutive-loss count becomes 0 only in a step of        *)
(* reset_consecutive_losses.  RiskManager.__init__ starts the count at 0 and *)
(* nothing persists it, so a restart zeroes a tripped count.                 *)
C17_ResetOnlyOnWin ==
    [][(consecutive_loss_counter # 0 /\ consecutive_loss_counter' = 0)
           => ResetConsecutiveLosses]_vars

-----------------------------------------------------------------------------
(* C18: a step in which the date does not change keeps the PnL accumulated   *)
(* for the current date: after a restart the in-memory accumulation and the  *)
(* file's cumulative_pnl are what they were, or the PnL realised on the      *)
(* current date.  A file written by an instance that ran over midnight keeps *)
(* the old date, and the next restart resets it together with today's PnL.   *)
C18_ResetOnlyOnRollover ==
    [][(restarts' # restarts) =>
           /\ daily_loss_accumulation' \in {daily_loss_accumulation, pnl_today}
           /\ IsDocument(daily_pnl_file) =>
                  daily_pnl_file'.cumulative_pnl
                      \in {daily_pnl_file.cumulative_pnl, pnl_today}]_vars

-----------------------------------------------------------------------------
(* C19: a reader pointed at a missing, unreadable, corrupt or wrongly shaped *)
(* file raises nothing and returns its safe default.  The shape a reader     *)
(* expects is the one its caller uses: a list of records for the trade and   *)
(* position files, a record for the daily PnL and the account metrics, any   *)
(* JSON value for read_json_safe.                                            *)
RecordsOnly(items) ==
    \A i \in 1..Len(items) :
        items[i].type = "object" /\ items[i].field \in {"absent", "number"}

WellShaped(reader, f) ==
    /\ f.exists
    /\ json_loads(f)
    /\ CASE reader \in {"load_trade_history", "load_open_positions", "read_open_positions"} ->
                f.json.type = "array" /\ RecordsOnly(f.json.items)
         [] reader = "_load_daily_pnl" ->
                f.json.type = "object" /\ f.json.date # "absent" /\ f.json.field = "number"
         [] reader = "read_account_metrics" ->
                f.json.type = "object" /\ f.json.field \in {"absent", "number"}
         [] OTHER -> TRUE

C19_DamagedFileReadsAsAbsent ==
    (reader_result.reader # "none" /\ ~WellShaped(reader_result.reader, reader_result.file))
        => (reader_result.raised = "" /\ reader_result.returns = "default")

-----------------------------------------------------------------------------
(* C20: the size randomize_lot_size returns is within lot_variance_pct per   *)
(* cent of the base size, for every outcome of the Gaussian draw.  The draw  *)
(* has standard deviation lot_variance_pct / 3 per cent and is not clamped,  *)
(* so an outcome beyond three standard deviations leaves the band.           *)
C20_LotSizeWithinVariance ==
    randomized_size # 0 =>
        LET base_size == 1000 * order_request.position_size
            deviation == IF randomized_size >= base_size
                         THEN randomized_size - base_size
                         ELSE base_size - randomized_size
        IN  deviation * 100 <= lot_variance_pct * base_size

-----------------------------------------------------------------------------
(* C27: when attempt k is the first create_order to succeed, the call has    *)
(* made exactly k create_order calls and k - 1 backoff waits, and returns    *)
(* the order of that k-th call unchanged; nothing follows the return.        *)
C27_StopsAtFirstSuccess ==
    (pc_submit = "returned" /\ ~all_failed) =>
        /\ attempt \in 1..max_retries
        /\ Len(submitted) = attempt
        /\ Len(waits) = attempt - 1
        /\ submit_result = [id |-> attempt, amount |-> randomized_size,
                            price |-> order_request.entry_price]
        /\ ~ENABLED NextSubmit

(* Two failures, then the third attempt of four succeeds *)
C27_Witness ==
    /\ pc_submit = "returned"
    /\ ~all_failed
    /\ attempt = 3
    /\ max_retries = 4
    /\ submit_result.id = 3

-----------------------------------------------------------------------------
(* C28: in one call the size and the three price levels are randomized once, *)
(* before the single human-like delay, which comes before the first attempt; *)
(* the k-th failed attempt with k < max_retries is followed by one wait of   *)
(* base min(initial_delay * backoff_multiplier^(k-1), max_delay), the last   *)
(* failed attempt by none; every attempt submits the same randomized size    *)
(* and the same entry price.                                                 *)
C28_EventTrace ==
    /\ [](/\ human_delays = (IF pc_submit \in {"start", "delay"} THEN 0 ELSE 1)
          /\ (pc_submit = "start") = (randomized_size = 0)
          /\ (pc_submit = "start") = (randomized_levels = NoLevels)
          /\ pc_submit \in {"start", "delay"} => (submitted = <<>> /\ waits = <<>>)
          /\ \A k \in 1..Len(waits) :
                waits[k] = (IF retry_initial_delay * Power(retry_backoff_multiplier, k - 1)
                                  <= retry_max_delay
                            THEN retry_initial_delay * Power(retry_backoff_multiplier, k - 1)
                            ELSE retry_max_delay)
          /\ pc_submit = "attempt" =>
                (Len(submitted) = attempt - 1 /\ Len(waits) = attempt - 1)
          /\ pc_submit = "backoff" =>
                (Len(submitted) = attempt /\ Len(waits) = attempt /\ attempt < max_retries)
          /\ (pc_submit = "returned" /\ all_failed) =>
                (Len(submitted) = max_retries /\ Len(waits) = max_retries - 1)
          /\ (pc_submit = "returned" /\ ~all_failed) => Len(waits) = Len(submitted) - 1
          /\ \A k \in 1..Len(submitted) :
                submitted[k] = [amount |-> randomized_size,
                                price |-> order_request.entry_price])
    /\ [][(randomized_size' # randomized_size \/ randomized_levels' # randomized_levels)
              => (pc_submit = "start" /\ pc_submit' = "delay")]_vars

(* Six failed attempts: the fifth wait is the first one cut to max_delay *)
C28_Witness ==
    /\ pc_submit = "returned"
    /\ all_failed
    /\ max_retries = 6
    /\ Len(waits) = 5
    /\ waits[5] = retry_max_delay
    /\ waits[4] < retry_max_delay
    /\ human_delays = 1

-----------------------------------------------------------------------------
(* C29: after track_daily_pnl calls within one date the in-memory            *)
(* accumulation equals the file's cumulative_pnl, and a RiskManager built on *)
(* the same date starts with the accumulation of the instance it replaces    *)
(* and gives the same check_daily_loss_limit verdict.  The file is rounded   *)
(* to 8 decimals at every call and the memory is not.                        *)
C29_RestartRecoversAccumulation ==
    recovered.done =>
        /\ recovered.new = recovered.old
        /\ recovered.new_verdict = recovered.old_verdict

-----------------------------------------------------------------------------
(* C26: for every max_retries >= 1 and every pattern of send failures,       *)
(* _send_message never raises, makes at most max_retries send attempts,      *)
(* returns True iff an attempt succeeded, and makes no attempt when the      *)
(* notifier is disabled or has no bot.  With max_retries >= 5 the fourth     *)
(* timeout in a row indexes the three-element delays list.                   *)
C26_SendNeverRaises ==
    /\ pc_send # "raised"
    /\ Len(send_log) <= notifier.max_retries
    /\ pc_send = "returned" =>
          (send_result = "True" <=> \E k \in 1..Len(send_log) : send_log[k] = "sent")
    /\ (~notifier.enabled \/ ~notifier.bot) => send_log = <<>>

-----------------------------------------------------------------------------
(* C25: after any fetches and polling rounds the cache holds at most         *)
(* cache_size candles, in strictly increasing order of timestamp, so none is *)
(* stored out of order or twice.  Every polling round appends the latest     *)
(* five candles again, whether or not the cache already holds them.          *)
C25_CacheBoundedOrderedUnique ==
    /\ Len(candles_cache) <= cache_size
    /\ \A i \in 1..Len(candles_cache) : \A j \in 1..Len(candles_cache) :
          i < j => candles_cache[i] < candles_cache[j]

-----------------------------------------------------------------------------
(* C23: a get_zones call recomputes the stored zones only when at least 100  *)
(* new candles have arrived since the last rebuild or when no zones exist;   *)
(* every other call returns the zones of the last rebuild.  update_zones     *)
(* counts the candles it is passed, not the candles that are new.            *)
C23_RebuildOnlyAfter100New ==
    [][rebuilds' # rebuilds =>
           (new_candles >= rebuild_every \/ sr_detector.zones.empty)]_vars

-----------------------------------------------------------------------------
(* C24: once the shutdown signal has set the shutdown event, the main loop   *)
(* starts no further signal cycle.  run_event_loop never reads the event or  *)
(* the shutdown flag: with the handler installed the loop goes on.           *)
C24_EventStopsCycles ==
    [][shutdown_event => cycles' = cycles]_vars

-----------------------------------------------------------------------------
(* C21: generate_signal returns LONG or SHORT with no skip_reason only when  *)
(* no gate trips; otherwise the direction is NONE and the skip_reason names  *)
(* the first gate that trips, the gates being tested in the order            *)
(* insufficient_data (a series is empty), spread_too_wide (the spread is     *)
(* above max_spread_points), no_breakout (the breakout signal is NONE),      *)
(* strength_too_low (the mean of the four scores is below                    *)
(* min_signal_strength).                                                     *)
first_tripped_gate ==
    IF m5_candles = <<>> \/ m15_candles.len = 0 \/ h1_candles = <<>>
    THEN "insufficient_data"
    ELSE IF current_bid_ask_spread > max_spread_points
    THEN "spread_too_wide"
    ELSE IF generate_breakout_signal(m5_candles).signal = "NONE"
    THEN "no_breakout"
    ELSE IF frac_lt(mean_score(signal_result.component_scores), min_signal_strength)
    THEN "strength_too_low"
    ELSE "None"

C21_ActionableOnlyPastEveryGate ==
    signal_result.called =>
        /\ signal_result.skip_reason = first_tripped_gate
        /\ signal_result.skip_reason = "None"
              <=> signal_result.direction \in {"LONG", "SHORT"}
        /\ signal_result.skip_reason # "None" => signal_result.direction = "NONE"
        /\ signal_result.skip_reason \in {"strength_too_low", "None"} =>
              signal_result.signal_strength = mean_score(signal_result.component_scores)
        /\ signal_result.direction \in {"LONG", "SHORT"} =>
              /\ signal_result.direction = generate_breakout_signal(m5_candles).signal
              /\ frac_leq(min_signal_strength, signal_result.signal_strength)

(* the second call of a generator, with the spread exactly at                *)
(* max_spread_points, passes every gate and returns SHORT                    *)
C21_Witness ==
    /\ signal_result.called
    /\ current_bid_ask_spread = max_spread_points
    /\ signal_result.direction = "SHORT"
    /\ signal_result.skip_reason = "None"
    /\ signal_calls = 2

-----------------------------------------------------------------------------
(* C22: every SignalResult of generate_signal has signal_strength in [0,1],  *)
(* each of trend_strength, breakout_score, sweep_score and pa_score in       *)
(* [0,1], and every zone held by the support/resistance detector has         *)
(* strength in [0,1].                                                        *)
in_unit_interval(x) == frac_leq(Whole(0), x) /\ frac_leq(x, Whole(1))

C22_StrengthsInUnitInterval ==
    /\ signal_result.called =>
          /\ in_unit_interval(signal_result.signal_strength)
          /\ DOMAIN signal_result.component_scores # {} =>
                /\ in_unit_interval(signal_result.component_scores.trend_strength)
                /\ in_unit_interval(signal_result.component_scores.breakout_score)
                /\ in_unit_interval(signal_result.component_scores.sweep_score)
                /\ in_unit_interval(signal_result.component_scores.pa_score)
    /\ \A k \in 1..Len(generator_sr.zones) :
          in_unit_interval(generator_sr.zones[k].strength)

(* an actionable result whose breakout score sits at the cap of 1, with a    *)
(* sweep scored off a zone of the detector                                   *)
C22_Witness ==
    /\ signal_result.called
    /\ signal_result.direction = "LONG"
    /\ signal_result.component_scores.breakout_score = Whole(1)
    /\ frac_lt(Whole(0), signal_result.component_scores.sweep_score)
    /\ generator_sr.zones # <<>>

-----------------------------------------------------------------------------
(* C30: every actionable decision has its prices in order: for LONG          *)
(* stop_loss < entry_price < tp1 < tp2, for SHORT tp2 < tp1 < entry_price <  *)
(* stop_loss; stop_loss never equals entry_price.                            *)
C30_PricesOrdered ==
    (signal_result.called /\ signal_result.direction # "NONE") =>
        /\ signal_result.stop_loss # signal_result.entry_price
        /\ signal_result.direction = "LONG" =>
              /\ frac_lt(signal_result.stop_loss, signal_result.entry_price)
              /\ frac_lt(signal_result.entry_price, signal_result.tp1)
              /\ frac_lt(signal_result.tp1, signal_result.tp2)
        /\ signal_result.direction = "SHORT" =>
              /\ frac_lt(signal_result.tp2, signal_result.tp1)
              /\ frac_lt(signal_result.tp1, signal_result.entry_price)
              /\ frac_lt(signal_result.entry_price, signal_result.stop_loss)

(* an actionable SHORT under the multipliers 0.5 and 3.0 *)
C30_Witness ==
    /\ signal_result.called
    /\ signal_result.direction = "SHORT"
    /\ atr_multipliers = [tp1 |-> 1, tp2 |-> 6]
    /\ signal_result.entry_price # Whole(0)

====
